---- MODULE Spec2Model ----
(***************************************************************************)
(* Ethsphere backend: the transaction ingestion loop of BlockchainService   *)
(* (fetchLatestTransactions / addToStack), its bounded PendingStack with    *)
(* the fetchingEnabled gate, the provider credential pool with rotation     *)
(* (executeWithRetry / rotateApiKey), the legacy GET /pending-queue         *)
(* accessor (popTransactions) and the rows the ingestion writes to the      *)
(* transactions table.                                                      *)
(*                                                                         *)
(* Node runs every synchronous stretch of code to completion, so one       *)
(* action is one such stretch: from a timer or request callback, or from   *)
(* the resumption of an await, up to the next await or the return.          *)
(*                                                                         *)
(* Spec is the running service.  SpecPure applies popTransactions (through  *)
(* the /pending-queue handler) and addToStack once to every stack, request  *)
(* and batch within the bounds, keeping operands and results side by side.  *)
(* SpecPool is the credential pool under concurrent executeWithRetry calls  *)
(* of HTTP requests.  SpecApi is the store with the routes that reach it    *)
(* (POST /query) or translate to SQL (POST /nl-to-sql).                     *)
(* SpecRoutes applies the translation and the statistics routes to every   *)
(* request within the bounds.  SpecLife is the process from main() to its  *)
(* exit, SpecConfig the loading and validation of the configuration before *)
(* it, SpecStore the database object under inserts and close().  SpecAuth  *)
(* is the session map under the auth routes.  SpecGate is Spec under every *)
(* accepted capacity and threshold, with requests that keep arriving.      *)
(***************************************************************************)
EXTENDS Integers, Sequences, FiniteSets, Bags, TLC

\* ---------------------------------------------------------------------------
\* Bounds of the model
\* ---------------------------------------------------------------------------
MaxCapacity == 3      \* largest STACK_CAPACITY explored
MaxKeys     == 2      \* largest number of Infura credentials explored
MaxInFlight == 2      \* fetchLatestTransactions invocations in flight at once
MaxBlock    == 1      \* the chain head advances up to this block number
MaxN        == 3      \* largest ?n= a /pending-queue request carries
MaxPoolKeys == 3      \* largest number of credentials explored in SpecPool
MaxSqlLen   == 3      \* longest SQL text, in fragments, a request carries
MaxNlLen    == 3      \* longest natural-language text, in words of NlCore
MaxPairLen  == 2      \* longest natural-language text, in words of NlWords
MaxRows     == 2      \* most rows of a table given to getTransactionStats
MaxSessions == 2      \* most sessions opened in a run

\* the hexadecimal digits of an address in the pattern of the converter
AddressLen == 40

\* the defaults of STACK_CAPACITY and STACK_RESUME_THRESHOLD, and the least
\* length of ENCRYPTION_KEY
DefaultStackCapacity == 5000
DefaultStackResumeThreshold == 1000
MinEncryptionKeyLength == 32

Max(a, b) == IF a >= b THEN a ELSE b
Min(a, b) == IF a <= b THEN a ELSE b

\* ---------------------------------------------------------------------------
\* Configuration (config.js)
\* ---------------------------------------------------------------------------
\* validateConfig: the process exits unless a credential is present and
\* STACK_CAPACITY > STACK_RESUME_THRESHOLD (the encryption key is not modelled).
ValidateConfig(c) ==
    /\ c.numKeys >= 1
    /\ ~(c.stackCapacity <= c.stackResumeThreshold)

\* The configurations explored, all accepted by validateConfig: every
\* positive capacity/threshold pair with a single credential (INFURA_API_KEY),
\* and every number of credentials (INFURA_API_KEYS) with the smallest such
\* pair.  The gate reads no credential state and the rotation reads no stack
\* state, so the two are varied one at a time.
Configs ==
    { c \in [ stackCapacity        : 1..MaxCapacity,
              stackResumeThreshold : 1..MaxCapacity,
              defaultQueryLimit    : {1},
              maxQueryLimit        : {2},
              numKeys              : 1..MaxKeys ] :
        /\ ValidateConfig(c)
        /\ (c.numKeys = 1 \/ c.stackCapacity = 2) }

\* ---------------------------------------------------------------------------
\* The upstream chain (environment)
\* ---------------------------------------------------------------------------
\* Block b carries BlockSize(b) transactions with hashes 10*b+1, 10*b+2, ...
BlockSize(b) == CASE b % 3 = 1 -> 2
                  [] b % 3 = 2 -> 1
                  [] OTHER     -> 0

BlockTransactions(b) == [i \in 1..BlockSize(b) |-> [hash |-> 10 * b + i, blockNumber |-> b]]

\* Errors a provider call can raise: message (a sequence of text fragments),
\* code, status
RateLimitExceeded == [message |-> <<"project ID request ", "rate limit",
        " exceeded">>, code |-> 0, status |-> 0]
TooManyRequests   == [message |-> <<"Too Many Requests">>, code |-> 429, status |-> 0]
BadResponse429    == [message |-> <<"bad response">>, code |-> 0, status |-> 429]
Timeout           == [message |-> <<"timeout">>, code |-> 0, status |-> 0]
InvalidAddress    == [message |-> <<"invalid address (value=0x", "429", "e1)">>, code |-> 0, status |-> 0]

\* the rate-limit class of the upstream: HTTP 429 or a rate limit reported by
\* the provider
RateLimitClass == {RateLimitExceeded, TooManyRequests, BadResponse429}

ProviderErrors == RateLimitClass \cup {Timeout, InvalidAddress}

NoError == [message |-> <<>>, code |-> 0, status |-> 0]

\* String.prototype.includes on a message
Includes(message, fragment) == \E i \in 1..Len(message) : message[i] = fragment

\* executeWithRetry, the rate-limit test
IsRateLimitError(e) ==
    \/ Includes(e.message, "rate limit")
    \/ Includes(e.message, "429")
    \/ e.code = 429
    \/ e.status = 429

\* ---------------------------------------------------------------------------
\* State
\* ---------------------------------------------------------------------------
VARIABLES
    config,           \* the validated configuration of this run
    phase,            \* "constructed" | "running" (fetchInterval set)
    pendingStack,     \* BlockchainService.pendingStack
    fetchingEnabled,  \* BlockchainService.fetchingEnabled
    currentKeyIndex,  \* BlockchainService.currentKeyIndex (0-based); provider is built from apiKeys[currentKeyIndex]
    store,            \* rows of the transactions table
    ticks,            \* bag of the in-flight invocations of fetchLatestTransactions
    head,             \* latest block number of the chain
    unhandled,        \* an exception escaped a tick (unhandled rejection)
    sincePop,         \* history: what happened since the last resuming pop
    lastOp,           \* history: the operation that produced this state
    input,            \* the operands of the call applied last (SpecPure, SpecPool, SpecApi)
    output,           \* the result of that call
    provider,         \* BlockchainService.provider: index of the credential it was built from
    calls,            \* SpecPool: bag of the executeWithRetry calls of HTTP requests in flight
    tables,           \* tables of the database
    userSessions,     \* the userSessions Map of the routes: sessionId -> session
    conn,             \* TransactionDatabase.conn: "null" | "open" | "closed" (null again after close)
    db,               \* TransactionDatabase.db: "null" | "open" | "closed" (null again after close)
    issued,           \* the number of session ids made so far (an id is never made twice)
    popped,           \* history: entries popTransactions has removed since ingestion was suspended (0 while enabled)
    listening,        \* "no" | "called" (app.listen called, its callback pending) | "yes"
    exitStatus        \* "none" while the process lives, then "success" (exit 0) or "failure" (exit 1)

vars == <<config, phase, pendingStack, fetchingEnabled, currentKeyIndex, store,
          ticks, head, unhandled, sincePop, lastOp, input, output, provider, calls, tables,
          userSessions, conn, db, popped, issued, listening, exitStatus>>

NoQuery == [isNaN |-> TRUE, value |-> 0]

NoInput == [op |-> "none", stack |-> <<>>, enabled |-> TRUE, q |-> NoQuery,
            txs |-> <<>>, insertOk |-> TRUE]

NoOutput == [op |-> "none", txs |-> <<>>, pendingStack |-> <<>>, fetchingEnabled |-> TRUE]

\* ---------------------------------------------------------------------------
\* Pure helpers, as the code computes them
\* ---------------------------------------------------------------------------
\* Array.prototype.slice(start) with one argument
Slice(s, start) ==
    LET len == Len(s)
        k   == IF start < 0 THEN Max(len + start, 0) ELSE Min(start, len)
    IN  SubSeq(s, k + 1, len)

\* transactions.map(tx => tx.hash)
Hashes(txs) == [i \in 1..Len(txs) |-> txs[i].hash]

\* variant: the truncation is missing
PushAndGate_NoTruncate(stack, enabled, hashes, cap) ==
    LET pushed == stack \o hashes
    IN  [pendingStack    |-> pushed,
         fetchingEnabled |-> IF Len(pushed) >= cap THEN FALSE ELSE enabled]

\* variant: the gate closes only above capacity (> for >=)
PushAndGate_GateAbove(stack, enabled, hashes, cap) ==
    LET pushed == stack \o hashes
        sliced == IF Len(pushed) > cap THEN Slice(pushed, 0 - cap) ELSE pushed
    IN  [pendingStack    |-> sliced,
         fetchingEnabled |-> IF Len(sliced) > cap THEN FALSE ELSE enabled]

\* variant: the truncation keeps the head, slice(0, cap), dropping the newest
PushAndGate_DropNewest(stack, enabled, hashes, cap) ==
    LET pushed == stack \o hashes
        sliced == IF Len(pushed) > cap THEN SubSeq(pushed, 1, cap) ELSE pushed
    IN  [pendingStack    |-> sliced,
         fetchingEnabled |-> IF Len(sliced) >= cap THEN FALSE ELSE enabled]

\* variant: the gate closes one entry below capacity
PushAndGate_GateEarly(stack, enabled, hashes, cap) ==
    LET pushed == stack \o hashes
        sliced == IF Len(pushed) > cap THEN Slice(pushed, 0 - cap) ELSE pushed
    IN  [pendingStack    |-> sliced,
         fetchingEnabled |-> IF Len(sliced) >= cap - 1 THEN FALSE ELSE enabled]

\* addToStack, the synchronous part after the insert: push, truncate, gate
PushAndGate(stack, enabled, hashes, cap) ==
    LET pushed == stack \o hashes
        sliced == IF Len(pushed) > cap THEN Slice(pushed, 0 - cap) ELSE pushed
    IN  [pendingStack    |-> sliced,
         fetchingEnabled |-> IF Len(sliced) >= cap THEN FALSE ELSE enabled]

\* variant: the catch of addToStack re-enables fetching
AddToStack_CatchReenables(stack, enabled, txs, cap, insertOk) ==
    IF insertOk
    THEN PushAndGate(stack, enabled, Hashes(txs), cap)
    ELSE [pendingStack |-> stack, fetchingEnabled |-> TRUE]

\* variant: the hashes are pushed before the insert is awaited
AddToStack_PushFirst(stack, enabled, txs, cap, insertOk) ==
    PushAndGate(stack, enabled, Hashes(txs), cap)

\* addToStack as a whole: the insert is awaited first; if it rejects, the
\* catch logs and nothing of the stack or the gate is touched.
AddToStack(stack, enabled, txs, cap, insertOk) ==
    IF insertOk
    THEN PushAndGate(stack, enabled, Hashes(txs), cap)
    ELSE [pendingStack |-> stack, fetchingEnabled |-> enabled]

\* variant: a plain insert that keeps the row already there
InsertTransaction_Append(rows, tx) ==
    rows \cup {tx}

\* INSERT OR REPLACE INTO transactions of one formatted record
InsertTransaction(rows, tx) ==
    {r \in rows : r.hash # tx.hash} \cup {tx}

RECURSIVE InsertAll(_, _, _)
InsertAll(rows, txs, landed) ==
    IF txs = <<>> THEN rows
    ELSE InsertAll(IF Len(txs) \in landed THEN InsertTransaction(rows, txs[Len(txs)]) ELSE rows,
                   SubSeq(txs, 1, Len(txs) - 1), landed)

\* variant: the index is incremented without the modulo
RotateApiKey_NoWrap(idx, nKeys) ==
    IF nKeys <= 1 THEN idx ELSE idx + 1

\* rotateApiKey: the index after the call
RotateApiKey(idx, nKeys) ==
    IF nKeys <= 1 THEN idx ELSE (idx + 1) % nKeys

\* variant: the index moves but the provider is not rebuilt
RotateApiKeyCall_KeepProvider(idx, prov, nKeys) ==
    IF nKeys <= 1
    THEN [returned |-> FALSE, currentKeyIndex |-> idx, provider |-> prov]
    ELSE [returned |-> TRUE, currentKeyIndex |-> RotateApiKey(idx, nKeys),
          provider |-> prov]

\* rotateApiKey as a whole: the value returned, the index and the provider
\* (the credential it is built from) after the call
RotateApiKeyCall(idx, prov, nKeys) ==
    IF nKeys <= 1
    THEN [returned |-> FALSE, currentKeyIndex |-> idx, provider |-> prov]
    ELSE [returned |-> TRUE, currentKeyIndex |-> RotateApiKey(idx, nKeys),
          provider |-> RotateApiKey(idx, nKeys)]

\* variant: the attempt number is not tested, every rate limit is retried
ExecuteWithRetryCatch_NoLimit(e, attempt, idx, prov, nKeys) ==
    LET rot == RotateApiKeyCall(idx, prov, nKeys)
    IN  IF IsRateLimitError(e)
        THEN [retry |-> TRUE, rotated |-> rot.returned, currentKeyIndex |-> rot.currentKeyIndex,
              provider |-> rot.provider, thrown |-> NoError]
        ELSE [retry |-> FALSE, rotated |-> FALSE, currentKeyIndex |-> idx,
              provider |-> prov, thrown |-> e]

\* variant: the last rate-limited attempt rotates too before it throws
ExecuteWithRetryCatch_RotateOnLast(e, attempt, idx, prov, nKeys) ==
    LET rot == RotateApiKeyCall(idx, prov, nKeys)
    IN  IF IsRateLimitError(e) /\ attempt < nKeys - 1
        THEN [retry |-> TRUE, rotated |-> rot.returned, currentKeyIndex |-> rot.currentKeyIndex,
              provider |-> rot.provider, thrown |-> NoError]
        ELSE IF IsRateLimitError(e)
        THEN [retry |-> FALSE, rotated |-> rot.returned, currentKeyIndex |-> rot.currentKeyIndex,
              provider |-> rot.provider, thrown |-> e]
        ELSE [retry |-> FALSE, rotated |-> FALSE, currentKeyIndex |-> idx,
              provider |-> prov, thrown |-> e]

\* executeWithRetry, the catch of attempt number `attempt` (0-based): rotate
\* and retry after the delay, or throw the error
ExecuteWithRetryCatch(e, attempt, idx, prov, nKeys) ==
    LET rot == RotateApiKeyCall(idx, prov, nKeys)
    IN  IF IsRateLimitError(e) /\ attempt < nKeys - 1
        THEN [retry |-> TRUE, rotated |-> rot.returned, currentKeyIndex |-> rot.currentKeyIndex,
              provider |-> rot.provider, thrown |-> NoError]
        ELSE [retry |-> FALSE, rotated |-> FALSE, currentKeyIndex |-> idx,
              provider |-> prov, thrown |-> e]

\* the catch of fetchLatestTransactions and the catch of addToStack: both
\* log the error and return normally
FetchCatch(e) == "logged"
AddToStackCatch(e) == "logged"

\* variant: the loop takes from the head (shift for pop)
RECURSIVE PopLoop_Shift(_, _, _, _)
PopLoop_Shift(i, n, stack, txs) ==
    IF i < n
    THEN IF stack = <<>>
         THEN PopLoop_Shift(i + 1, n, stack, txs)
         ELSE PopLoop_Shift(i + 1, n, Tail(stack), Append(txs, Head(stack)))
    ELSE [txs |-> txs, pendingStack |-> stack]

\* popTransactions, the loop: i-th iteration pops the tail
RECURSIVE PopLoop(_, _, _, _)
PopLoop(i, n, stack, txs) ==
    IF i < n
    THEN IF stack = <<>>
         THEN PopLoop(i + 1, n, stack, txs)
         ELSE PopLoop(i + 1, n, SubSeq(stack, 1, Len(stack) - 1), Append(txs, stack[Len(stack)]))
    ELSE [txs |-> txs, pendingStack |-> stack]

\* variant: the resume test is off by one
PopTransactions_ResumeLate(stack, enabled, count, threshold) ==
    LET n == Min(count, Len(stack))
        r == PopLoop(0, n, stack, <<>>)
    IN  [txs             |-> r.txs,
         pendingStack    |-> r.pendingStack,
         fetchingEnabled |-> IF Len(r.pendingStack) < threshold - 1 THEN TRUE ELSE enabled]

\* variant: fetching resumes at the threshold itself
PopTransactions_ResumeAtThreshold(stack, enabled, count, threshold) ==
    LET n == Min(count, Len(stack))
        r == PopLoop(0, n, stack, <<>>)
    IN  [txs             |-> r.txs,
         pendingStack    |-> r.pendingStack,
         fetchingEnabled |-> IF Len(r.pendingStack) <= threshold THEN TRUE ELSE enabled]

\* popTransactions(count)
PopTransactions(stack, enabled, count, threshold) ==
    LET n == Min(count, Len(stack))
        r == PopLoop(0, n, stack, <<>>)
    IN  [txs             |-> r.txs,
         pendingStack    |-> r.pendingStack,
         fetchingEnabled |-> IF Len(r.pendingStack) < threshold THEN TRUE ELSE enabled]

\* GET /pending-queue: Math.min(Number(req.query.n) || defaultQueryLimit, maxQueryLimit)
\* Number(req.query.n) of the requests explored: NaN for an absent or
\* non-numeric parameter, else an integer from -1 to MaxN.
QueryN == {[isNaN |-> TRUE, value |-> 0]} \cup {[isNaN |-> FALSE, value |-> k] : k \in (0 - 1)..MaxN}

\* x || y on numbers: NaN and 0 are falsy
OrDefault(q, d) == IF q.isNaN \/ q.value = 0 THEN d ELSE q.value

RequestedCount(q, c) == Min(OrDefault(q, c.defaultQueryLimit), c.maxQueryLimit)


\* ---------------------------------------------------------------------------
\* Initial state: after new BlockchainService(database)
\* ---------------------------------------------------------------------------
\* the application around the service at that moment: database.initialize has
\* resolved, createRoutes has not stored a session, listen is not yet called
NewApp ==
    /\ conn = "open"
    /\ db = "open"
    /\ popped = 0
    /\ issued = 0
    /\ userSessions = <<>>
    /\ listening = "no"
    /\ exitStatus = "none"

NewService ==
    /\ phase = "constructed"
    /\ NewApp
    /\ pendingStack = <<>>
    /\ fetchingEnabled = TRUE
    /\ currentKeyIndex = 0
    /\ store = {}
    /\ ticks = EmptyBag
    /\ head = 0
    /\ unhandled = FALSE
    /\ sincePop = "none"
    /\ lastOp = "init"
    /\ provider = 0
    /\ calls = EmptyBag
    /\ tables = {"transactions"}

Constructed ==
    /\ config \in Configs
    /\ NewService

Init ==
    /\ Constructed
    /\ input = NoInput
    /\ output = NoOutput

\* ---------------------------------------------------------------------------
\* Actions
\* ---------------------------------------------------------------------------
InFlight == BagCardinality(ticks)

\* tick record r of the bag becomes r2 / ends
Becomes(r, r2) == (ticks (-) SetToBag({r})) (+) SetToBag({r2})
Ends(r) == ticks (-) SetToBag({r})

\* executeWithRetry issues this.provider[method](...args) with the provider of the moment
BeginCall(method, attempt, blockNumber) ==
    [pc |-> "call", method |-> method, attempt |-> attempt, blockNumber |-> blockNumber]

\* variant: the gate test at the top of fetchLatestTransactions is missing
FetchLatestTransactions_NoGate ==
    /\ InFlight < MaxInFlight
    /\ ticks' = ticks (+) SetToBag({BeginCall("getBlockNumber", 0, 0)})
    /\ lastOp' = "tick_fetch"
    /\ sincePop' = "none"
    /\ UNCHANGED <<config, pendingStack, fetchingEnabled, currentKeyIndex, store, head,
                   unhandled, input, output, provider, calls, tables, userSessions, conn, db,
                   exitStatus, popped, issued>>

\* fetchLatestTransactions up to its first await
FetchLatestTransactions ==
    /\ IF ~fetchingEnabled
       THEN /\ ticks' = ticks
            /\ lastOp' = "tick_skip"
       ELSE /\ InFlight < MaxInFlight
            /\ ticks' = ticks (+) SetToBag({BeginCall("getBlockNumber", 0, 0)})
            /\ lastOp' = "tick_fetch"
    /\ sincePop' = "none"
    /\ UNCHANGED <<config, pendingStack, fetchingEnabled, currentKeyIndex, store, head,
                   unhandled, input, output, provider, calls, tables, userSessions, conn, db,
                   exitStatus, popped, issued>>

\* startFetching: the initial fetch, then setInterval
StartFetching ==
    /\ phase = "constructed"
    /\ phase' = "running"
    /\ listening' = listening
    /\ FetchLatestTransactions

\* the interval timer fires
TimerTick ==
    /\ phase = "running"
    /\ phase' = phase
    /\ listening' = listening
    /\ FetchLatestTransactions

\* a provider call of tick r resolves
CallResolves(r) ==
    /\ r.pc = "call"
    /\ \/ /\ r.method = "getBlockNumber"
          /\ ticks' = Becomes(r, BeginCall("getBlockWithTransactions", 0, head))
       \/ /\ r.method = "getBlockWithTransactions"
          /\ \E found \in BOOLEAN :
                LET txs == IF found THEN BlockTransactions(r.blockNumber) ELSE <<>>
                IN  IF Len(txs) > 0
                    THEN ticks' = Becomes(r, [r EXCEPT !.pc = "insert"])
                    ELSE ticks' = Ends(r)
    /\ lastOp' = "step"
    /\ UNCHANGED <<config, phase, pendingStack, fetchingEnabled, currentKeyIndex,
                   store, head, unhandled, sincePop, input, output, provider, calls, tables, userSessions, conn, db, listening, exitStatus, popped, issued>>

\* a provider call of tick r rejects with e: the catch of executeWithRetry
CallRejects(r, e) ==
    /\ r.pc = "call"
    /\ LET c == ExecuteWithRetryCatch(e, r.attempt, currentKeyIndex, provider, config.numKeys)
       IN  /\ currentKeyIndex' = c.currentKeyIndex
           /\ provider' = c.provider
           /\ IF c.retry
              THEN /\ ticks' = Becomes(r, [r EXCEPT !.pc = "delay"])
                   /\ lastOp' = "call_retry"
                   /\ unhandled' = unhandled
              ELSE /\ ticks' = Ends(r)
                   /\ lastOp' = "tick_error"
                   /\ unhandled' = (unhandled \/ FetchCatch(c.thrown) # "logged")
    /\ UNCHANGED <<config, phase, pendingStack, fetchingEnabled, store, head, sincePop,
                   input, output, calls, tables, userSessions, conn, db, listening, exitStatus, popped, issued>>

\* the one-second delay before a retry elapses
DelayElapses(r) ==
    /\ r.pc = "delay"
    /\ ticks' = Becomes(r, BeginCall(r.method, r.attempt + 1, r.blockNumber))
    /\ lastOp' = "step"
    /\ UNCHANGED <<config, phase, pendingStack, fetchingEnabled, currentKeyIndex,
                   store, head, unhandled, sincePop, input, output, provider, calls, tables, userSessions, conn, db, listening, exitStatus, popped, issued>>

\* database.insertTransactions of tick r resolves: the rest of addToStack runs
InsertResolves(r) ==
    /\ r.pc = "insert"
    /\ LET txs == BlockTransactions(r.blockNumber)
           a   == AddToStack(pendingStack, fetchingEnabled, txs, config.stackCapacity, TRUE)
       IN  /\ store' = InsertAll(store, txs, 1..Len(txs))
           /\ pendingStack' = a.pendingStack
           /\ fetchingEnabled' = a.fetchingEnabled
           /\ sincePop' = IF sincePop = "resumed" /\ ~a.fetchingEnabled THEN "refilled" ELSE sincePop
           /\ lastOp' = IF Len(pendingStack) + Len(txs) > config.stackCapacity
                        THEN "append_truncated" ELSE "append"
           /\ popped' = IF fetchingEnabled /\ ~a.fetchingEnabled THEN 0 ELSE popped
    /\ ticks' = Ends(r)
    /\ UNCHANGED <<config, phase, currentKeyIndex, head, unhandled, input, output, provider, calls,
                   tables, userSessions, conn, db, listening, exitStatus, issued>>

\* database.insertTransactions of tick r rejects: some of the batch's rows
\* have landed, one insert failed; the catch of addToStack logs
InsertRejects(r, landed) ==
    /\ r.pc = "insert"
    /\ LET txs == BlockTransactions(r.blockNumber)
           e   == [message |-> <<"Constraint Error">>, code |-> 0, status |-> 0]
           a   == AddToStack(pendingStack, fetchingEnabled, txs, config.stackCapacity, FALSE)
       IN  /\ landed \subseteq 1..Len(txs)
           /\ landed # 1..Len(txs)
           /\ store' = InsertAll(store, txs, landed)
           /\ pendingStack' = a.pendingStack
           /\ fetchingEnabled' = a.fetchingEnabled
           /\ unhandled' = (unhandled \/ AddToStackCatch(e) # "logged")
    /\ lastOp' = "insert_error"
    /\ ticks' = Ends(r)
    /\ UNCHANGED <<config, phase, currentKeyIndex, head, sincePop, input, output, provider, calls, tables, userSessions, conn, db, listening, exitStatus, popped, issued>>

\* GET /pending-queue?n=q
PendingQueue(q) ==
    /\ phase = "running"
    /\ LET n == RequestedCount(q, config)
           p == PopTransactions(pendingStack, fetchingEnabled, n, config.stackResumeThreshold)
       IN  /\ pendingStack' = p.pendingStack
           /\ fetchingEnabled' = p.fetchingEnabled
           /\ sincePop' = IF Len(p.pendingStack) < config.stackResumeThreshold
                          THEN "resumed" ELSE sincePop
           /\ lastOp' = IF ~fetchingEnabled /\ p.fetchingEnabled THEN "pop_resumed" ELSE "pop"
           /\ popped' = IF p.fetchingEnabled THEN 0 ELSE popped + Len(p.txs)
    /\ UNCHANGED <<config, phase, currentKeyIndex, store, ticks, head, unhandled, input, output,
                   provider, calls, tables, userSessions, conn, db, listening, exitStatus, issued>>

\* the chain grows by a block
NewBlock ==
    /\ head < MaxBlock
    /\ head' = head + 1
    /\ lastOp' = "step"
    /\ UNCHANGED <<config, phase, pendingStack, fetchingEnabled, currentKeyIndex,
                   store, ticks, unhandled, sincePop, input, output, provider, calls, tables, userSessions, conn, db, listening, exitStatus, popped, issued>>

Next ==
    \/ StartFetching
    \/ TimerTick
    \/ \E r \in BagToSet(ticks) : CallResolves(r)
    \/ \E r \in BagToSet(ticks), e \in ProviderErrors : CallRejects(r, e)
    \/ \E r \in BagToSet(ticks) : DelayElapses(r)
    \/ \E r \in BagToSet(ticks) : InsertResolves(r)
    \/ \E r \in BagToSet(ticks) : \E landed \in SUBSET (1..BlockSize(r.blockNumber)) : InsertRejects(r, landed)
    \/ \E q \in QueryN : PendingQueue(q)
    \/ NewBlock

Spec == Init /\ [][Next]_vars

\* ---------------------------------------------------------------------------
\* SpecGate: the running service under every capacity and threshold that
\* validateConfig accepts, with /pending-queue requests that keep arriving
\* ---------------------------------------------------------------------------
\* parseInt keeps a negative STACK_RESUME_THRESHOLD (0 becomes the default),
\* and validateConfig compares it with the capacity only
GateConfigs ==
    { c \in [ stackCapacity        : 1..MaxCapacity,
              stackResumeThreshold : {0 - 1} \cup 1..MaxCapacity,
              defaultQueryLimit    : {1},
              maxQueryLimit        : {2},
              numKeys              : 1..MaxKeys ] :
        /\ ValidateConfig(c)
        /\ (c.numKeys = 1 \/ c.stackCapacity = 2) }

InitGate ==
    /\ config \in GateConfigs
    /\ NewService
    /\ input = NoInput
    /\ output = NoOutput

\* the consumer keeps consuming: a request with n >= 1 is served again and
\* again
SpecGate ==
    /\ InitGate
    /\ [][Next]_vars
    /\ WF_vars(\E q \in QueryN : ~q.isNaN /\ q.value >= 1 /\ PendingQueue(q))

\* ---------------------------------------------------------------------------
\* SpecPure: one call of the /pending-queue handler or of addToStack on
\* every stack, request and batch within the bounds
\* ---------------------------------------------------------------------------
\* the hashes the chain carries
HashSet == UNION { {BlockTransactions(b)[i].hash : i \in 1..BlockSize(b)} : b \in 0..MaxBlock }

\* stacks of at most cap hashes, with a gate that is closed at capacity
StackInputs(cap) == UNION { [1..k -> HashSet] : k \in 0..cap }
GateInputs(stack, cap) == IF Len(stack) >= cap THEN {FALSE} ELSE BOOLEAN

PopInputs(c) ==
    { [op |-> "pop", stack |-> s, enabled |-> en, q |-> q, txs |-> <<>>, insertOk |-> TRUE] :
        s \in StackInputs(c.stackCapacity), en \in BOOLEAN, q \in QueryN }

AppendInputs(c) ==
    { [op |-> "append", stack |-> s, enabled |-> en, q |-> NoQuery,
       txs |-> BlockTransactions(b), insertOk |-> ok] :
        s \in StackInputs(c.stackCapacity), en \in BOOLEAN, b \in 1..MaxBlock, ok \in BOOLEAN }

InitPure ==
    /\ Constructed
    /\ input \in {i \in PopInputs(config) \cup AppendInputs(config) :
                    i.enabled \in GateInputs(i.stack, config.stackCapacity)}
    /\ output = NoOutput

\* GET /pending-queue?n=input.q on input.stack
ApplyPendingQueue ==
    /\ input.op = "pop"
    /\ output.op = "none"
    /\ LET n == RequestedCount(input.q, config)
           p == PopTransactions(input.stack, input.enabled, n, config.stackResumeThreshold)
       IN  output' = [op |-> "pop", txs |-> p.txs, pendingStack |-> p.pendingStack,
                      fetchingEnabled |-> p.fetchingEnabled]
    /\ UNCHANGED <<config, phase, pendingStack, fetchingEnabled, currentKeyIndex, store,
                   ticks, head, unhandled, sincePop, lastOp, input, provider, calls, tables, userSessions, conn, db, listening, exitStatus, popped, issued>>

\* addToStack(input.txs) on input.stack, the insert resolving or rejecting
ApplyAddToStack ==
    /\ input.op = "append"
    /\ output.op = "none"
    /\ LET a == AddToStack(input.stack, input.enabled, input.txs, config.stackCapacity, input.insertOk)
       IN  output' = [op |-> "append", txs |-> <<>>, pendingStack |-> a.pendingStack,
                      fetchingEnabled |-> a.fetchingEnabled]
    /\ UNCHANGED <<config, phase, pendingStack, fetchingEnabled, currentKeyIndex, store,
                   ticks, head, unhandled, sincePop, lastOp, input, provider, calls, tables, userSessions, conn, db, listening, exitStatus, popped, issued>>

NextPure ==
    \/ ApplyPendingQueue
    \/ ApplyAddToStack

SpecPure == InitPure /\ [][NextPure]_vars

\* ---------------------------------------------------------------------------
\* SpecPool: the credential pool under the provider calls of HTTP requests
\* (GET /balance/:address), which run concurrently on the one service
\* ---------------------------------------------------------------------------
PoolConfigs ==
    { [stackCapacity |-> 2, stackResumeThreshold |-> 1, defaultQueryLimit |-> 1,
       maxQueryLimit |-> 2, numKeys |-> n] : n \in 1..MaxPoolKeys }

InitPool ==
    /\ config \in PoolConfigs
    /\ ValidateConfig(config)
    /\ NewService
    /\ input = NoInput
    /\ output = NoOutput

InFlightCalls == BagCardinality(calls)

CallBecomes(c, c2) == (calls (-) SetToBag({c})) (+) SetToBag({c2})
CallEnds(c) == calls (-) SetToBag({c})

\* The history of one call at a time is kept (the observed call, any of the
\* calls): the index when it was entered, the credential of its current
\* attempt, its rotations, whether all its failures were of the rate-limit
\* class, whether it ran alone, no other call rotating the pool meanwhile,
\* and the credentials its attempts have failed on.
Observing == \E c \in BagToSet(calls) : c.observed

Disturb(c) == IF c.observed THEN [c EXCEPT !.alone = FALSE] ELSE c

RECURSIVE DisturbAll(_)
DisturbAll(B) ==
    IF BagToSet(B) = {} THEN EmptyBag
    ELSE LET c == CHOOSE x \in BagToSet(B) : TRUE
         IN  [x \in {Disturb(c)} |-> CopiesIn(c, B)]
                (+) DisturbAll([x \in BagToSet(B) \ {c} |-> B[x]])

\* executeWithRetry is entered: attempt 0 is issued on this.provider
NewCall(observed) ==
    [pc |-> "call", attempt |-> 0, observed |-> observed,
     first |-> IF observed THEN currentKeyIndex ELSE 0,
     usedKey |-> IF observed THEN provider ELSE 0,
     rotations |-> 0, allRateLimit |-> TRUE, alone |-> TRUE, failedKeys |-> {}]

\* what the observed call leaves when it ends: its outcome and its history
Finished(c, status, e, idx) ==
    IF c.observed
    THEN [op |-> "call", status |-> status, error |-> e, first |-> c.first,
          attempts |-> c.attempt + 1, usedKey |-> c.usedKey, rotations |-> c.rotations,
          allRateLimit |-> c.allRateLimit, alone |-> c.alone, indexAfter |-> idx]
    ELSE NoOutput

\* GET /balance/:address: getBalance enters executeWithRetry('getBalance', address)
GetBalance(observed) ==
    /\ InFlightCalls < MaxInFlight
    /\ observed => ~Observing
    /\ calls' = calls (+) SetToBag({NewCall(observed)})
    /\ input' = NoInput
    /\ output' = NoOutput
    /\ lastOp' = "call_begin"
    /\ UNCHANGED <<config, phase, pendingStack, fetchingEnabled, currentKeyIndex, store,
                   ticks, head, unhandled, sincePop, provider, tables, userSessions, conn, db, listening, exitStatus, popped, issued>>

\* the provider call of attempt c.attempt resolves: executeWithRetry returns it
AttemptResolves(c) ==
    /\ c.pc = "call"
    /\ calls' = CallEnds(c)
    /\ input' = [op |-> "resolve", error |-> NoError, attempt |-> c.attempt]
    /\ output' = Finished(c, "ok", NoError, currentKeyIndex)
    /\ lastOp' = "call_ok"
    /\ UNCHANGED <<config, phase, pendingStack, fetchingEnabled, currentKeyIndex, store,
                   ticks, head, unhandled, sincePop, provider, tables, userSessions, conn, db, listening, exitStatus, popped, issued>>

\* the provider call of attempt c.attempt rejects with e: the catch
AttemptRejects(c, e) ==
    /\ c.pc = "call"
    /\ LET k  == ExecuteWithRetryCatch(e, c.attempt, currentKeyIndex, provider, config.numKeys)
           c2 == IF c.observed
                 THEN [c EXCEPT !.rotations = IF k.rotated THEN @ + 1 ELSE @,
                                !.allRateLimit = @ /\ e \in RateLimitClass,
                                !.failedKeys = @ \cup {c.usedKey}]
                 ELSE c
           others == IF k.rotated THEN DisturbAll(CallEnds(c)) ELSE CallEnds(c)
       IN  /\ currentKeyIndex' = k.currentKeyIndex
           /\ provider' = k.provider
           /\ input' = [op |-> "reject", error |-> e, attempt |-> c.attempt]
           /\ IF k.retry
              THEN /\ calls' = others (+) SetToBag({[c2 EXCEPT !.pc = "delay"]})
                   /\ output' = NoOutput
                   /\ lastOp' = "call_retry"
              ELSE /\ calls' = others
                   /\ output' = Finished(c2, "error", k.thrown, k.currentKeyIndex)
                   /\ lastOp' = "call_error"
    /\ UNCHANGED <<config, phase, pendingStack, fetchingEnabled, store,
                   ticks, head, unhandled, sincePop, tables, userSessions, conn, db, listening, exitStatus, popped, issued>>

\* the one-second delay of call c elapses: the next attempt is issued on the
\* provider of the moment
RetryDelayElapses(c) ==
    /\ c.pc = "delay"
    /\ calls' = CallBecomes(c, [c EXCEPT !.pc = "call", !.attempt = @ + 1,
                                         !.usedKey = IF c.observed THEN provider ELSE 0])
    /\ input' = NoInput
    /\ output' = NoOutput
    /\ lastOp' = "call_delay"
    /\ UNCHANGED <<config, phase, pendingStack, fetchingEnabled, currentKeyIndex, store,
                   ticks, head, unhandled, sincePop, provider, tables, userSessions, conn, db, listening, exitStatus, popped, issued>>

NextPool ==
    \/ \E observed \in BOOLEAN : GetBalance(observed)
    \/ \E c \in BagToSet(calls) : AttemptResolves(c)
    \/ \E c \in BagToSet(calls), e \in ProviderErrors : AttemptRejects(c, e)
    \/ \E c \in BagToSet(calls) : RetryDelayElapses(c)

SpecPool == InitPool /\ [][NextPool]_vars

\* ---------------------------------------------------------------------------
\* SpecApi: the store and the HTTP routes that reach it or translate to SQL
\* ---------------------------------------------------------------------------
\* A SQL text is a sequence of fragments: " " is white space, "select" begins
\* a statement that reads the transactions table ("SELECT" when uppercased),
\* "DROP" is DROP TABLE transactions, ";" separates statements.
SqlFragments == {" ", "select", "DROP", ";"}

SqlTexts == UNION { [1..k -> SqlFragments] : k \in 0..MaxSqlLen }

\* String.prototype.trim
RECURSIVE TrimStart(_)
TrimStart(s) == IF s # <<>> /\ s[1] = " " THEN TrimStart(Tail(s)) ELSE s

RECURSIVE TrimEnd(_)
TrimEnd(s) == IF s # <<>> /\ s[Len(s)] = " " THEN TrimEnd(SubSeq(s, 1, Len(s) - 1)) ELSE s

Trim(s) == TrimEnd(TrimStart(s))

\* String.prototype.toUpperCase
ToUpperCase(s) == [i \in 1..Len(s) |-> IF s[i] = "select" THEN "SELECT" ELSE s[i]]

\* String.prototype.startsWith
StartsWith(s, f) == s # <<>> /\ s[1] = f

\* req.body.sql: absent, a text, or a value that is not a string (a non-zero
\* number, an array)
QueryBodies ==
    { [kind |-> "absent", text |-> <<>>], [kind |-> "other", text |-> <<>>] }
        \cup { [kind |-> "text", text |-> t] : t \in SqlTexts }

\* !sql
Falsy(body) == body.kind = "absent" \/ (body.kind = "text" /\ body.text = <<>>)

\* variant: the test looks for SELECT anywhere in the text
PostQueryCheck_Includes(body) ==
    IF Falsy(body)
    THEN [status |-> 400, error |-> "SQL query is required", pass |-> FALSE]
    ELSE IF body.kind # "text"
    THEN [status |-> 500, error |-> "Query execution failed", pass |-> FALSE]
    ELSE IF ~(\E i \in 1..Len(Trim(body.text)) : ToUpperCase(Trim(body.text))[i] = "SELECT")
    THEN [status |-> 400, error |-> "Only SELECT queries are allowed", pass |-> FALSE]
    ELSE [status |-> 200, error |-> "", pass |-> TRUE]

\* POST /query up to the call of database.query: sql.trim() of a value that
\* is not a string throws a TypeError, which the catch answers with 500
PostQueryCheck(body) ==
    IF Falsy(body)
    THEN [status |-> 400, error |-> "SQL query is required", pass |-> FALSE]
    ELSE IF body.kind # "text"
    THEN [status |-> 500, error |-> "Query execution failed", pass |-> FALSE]
    ELSE IF ~StartsWith(ToUpperCase(Trim(body.text)), "SELECT")
    THEN [status |-> 400, error |-> "Only SELECT queries are allowed", pass |-> FALSE]
    ELSE [status |-> 200, error |-> "", pass |-> TRUE]

\* The engine behind conn.all.  The statements of a text are its non-blank
\* runs between ";".
RECURSIVE Split(_)
Split(s) ==
    IF s = <<>> THEN << <<>> >>
    ELSE LET rest == Split(Tail(s))
         IN  IF Head(s) = ";"
             THEN << <<>> >> \o rest
             ELSE << <<Head(s)>> \o rest[1] >> \o Tail(rest)

NotBlank(r) == Trim(r) # <<>>

Statements(s) == SelectSeq(Split(s), NotBlank)

StatementKind(r) ==
    LET t == ToUpperCase(Trim(r))
    IN  IF Len(t) > 1 /\ t[2] # " " THEN "invalid"
        ELSE IF t[1] = "SELECT" THEN "select"
        ELSE IF t[1] = "DROP" THEN "drop"
        ELSE "invalid"

\* one statement on the database dbase = [rows, tables, ok]
RunStatement(dbase, r) ==
    IF ~dbase.ok \/ "transactions" \notin dbase.tables \/ StatementKind(r) = "invalid"
    THEN [dbase EXCEPT !.ok = FALSE]
    ELSE IF StatementKind(r) = "drop"
    THEN [rows |-> {}, tables |-> dbase.tables \ {"transactions"}, ok |-> TRUE]
    ELSE dbase

RECURSIVE RunAll(_, _)
RunAll(dbase, stmts) ==
    IF stmts = <<>> THEN dbase ELSE RunAll(RunStatement(dbase, Head(stmts)), Tail(stmts))

\* What the engine may do with a text: a single statement is run; a text of
\* several statements is either refused as a whole or run statement by
\* statement (the source does not tell which).
EngineOutcomes(text, rows, tbls) ==
    LET dbase == [rows |-> rows, tables |-> tbls, ok |-> TRUE]
        st == Statements(text)
    IN  IF Len(st) = 0 THEN { [dbase EXCEPT !.ok = FALSE] }
        ELSE IF Len(st) = 1 THEN { RunStatement(dbase, st[1]) }
        ELSE { [dbase EXCEPT !.ok = FALSE], RunAll(dbase, st) }

\* the records upserted: the transactions of block 1, which can come again
\* with other fields (mined in block 2 after a reorganisation)
TxRecords ==
    { [hash |-> BlockTransactions(1)[i].hash, blockNumber |-> b] :
        i \in 1..BlockSize(1), b \in {1, 2} }

\* config.groqApiKey: the server-wide default credential, present or not
ApiConfigs ==
    { c @@ [groqApiKey |-> g] : c \in {k \in PoolConfigs : k.numKeys = 1}, g \in BOOLEAN }

InitApi ==
    /\ config \in ApiConfigs
    /\ NewService
    /\ input = NoInput
    /\ output = NoOutput

\* database.insertTransaction(tx)
InsertTransactionCall(tx) ==
    /\ input' = [op |-> "insert", tx |-> tx]
    /\ IF "transactions" \in tables
       THEN /\ store' = InsertTransaction(store, tx)
            /\ output' = [op |-> "insert", status |-> "ok",
                           present |-> \E r \in store : r.hash = tx.hash,
                           replaced |-> \E r \in store : r.hash = tx.hash /\ r # tx,
                           countBefore |-> Cardinality(store)]
       ELSE /\ store' = store
            /\ output' = [op |-> "insert", status |-> "error", present |-> FALSE,
                           replaced |-> FALSE, countBefore |-> Cardinality(store)]
    /\ lastOp' = "insert"
    /\ UNCHANGED <<config, phase, pendingStack, fetchingEnabled, currentKeyIndex,
                   ticks, head, unhandled, sincePop, provider, calls, tables, userSessions, conn, db, listening, exitStatus, popped, issued>>

\* database.query(sql): the text goes to conn.all as it is
DatabaseQueryCall(text) ==
    /\ input' = [op |-> "db_query", text |-> text]
    /\ \E o \in EngineOutcomes(text, store, tables) :
          /\ store' = o.rows
          /\ tables' = o.tables
          /\ output' = [op |-> "db_query", reachedEngine |-> TRUE,
                         result |-> IF o.ok THEN "rows" ELSE "engine_error"]
    /\ lastOp' = "db_query"
    /\ UNCHANGED <<config, phase, pendingStack, fetchingEnabled, currentKeyIndex,
                   ticks, head, unhandled, sincePop, provider, calls, userSessions, conn, db, listening, exitStatus, popped, issued>>

\* POST /query {sql}
PostQuery(body) ==
    /\ input' = [op |-> "post_query", body |-> body]
    /\ LET chk == PostQueryCheck(body)
       IN  IF chk.pass
           THEN \E o \in EngineOutcomes(body.text, store, tables) :
                   /\ store' = o.rows
                   /\ tables' = o.tables
                   /\ output' = [op |-> "post_query", reachedStore |-> TRUE,
                                  status |-> IF o.ok THEN 200 ELSE 500]
           ELSE /\ store' = store
                /\ tables' = tables
                /\ output' = [op |-> "post_query", reachedStore |-> FALSE,
                               status |-> chk.status]
    /\ lastOp' = "post_query"
    /\ UNCHANGED <<config, phase, pendingStack, fetchingEnabled, currentKeyIndex,
                   ticks, head, unhandled, sincePop, provider, calls, userSessions, conn, db, listening, exitStatus, popped, issued>>

\* POST /nl-to-sql: the provider hint ("" when absent; "mistral" is not among
\* the providers of convertWithProvider), the session the sessionId names
\* (no sessionId, an id not in userSessions, a stored session) and whether
\* decrypt of its credential succeeds
ProviderHints == {"", "groq", "openai", "mistral"}

SupportedProviders == {"groq", "openai", "claude", "gemini"}

NlRequests ==
    [naturalLanguage : BOOLEAN, provider : ProviderHints,
     session : {"none", "unknown", "known"}, decryptOk : BOOLEAN]

\* apiKey after the session lookup: non-null only for a stored session whose
\* credential decrypts
HasApiKey(req) == req.session = "known" /\ req.decryptOk

\* variant: the server default is preferred to the hinted provider
NlToSqlSelect_DefaultFirst(req, groqApiKey) ==
    IF groqApiKey
    THEN [branch |-> "default", attempted |-> "groq", call |-> "groq"]
    ELSE IF req.provider # "" /\ HasApiKey(req)
    THEN [branch |-> "provider", attempted |-> req.provider,
          call |-> IF req.provider \in SupportedProviders THEN req.provider ELSE "none"]
    ELSE [branch |-> "rule-based", attempted |-> "rule-based", call |-> "none"]

\* the if / else if / else of the handler: the branch taken, the provider it
\* attempts and the API it calls (convertWithProvider throws on a provider it
\* does not know before calling anything)
NlToSqlSelect(req, groqApiKey) ==
    IF req.provider # "" /\ HasApiKey(req)
    THEN [branch |-> "provider", attempted |-> req.provider,
          call |-> IF req.provider \in SupportedProviders THEN req.provider ELSE "none"]
    ELSE IF groqApiKey
    THEN [branch |-> "default", attempted |-> "groq", call |-> "groq"]
    ELSE [branch |-> "rule-based", attempted |-> "rule-based", call |-> "none"]

\* POST /nl-to-sql; callOk: the provider call, if one is made, succeeds
NlToSql(req, callOk) ==
    /\ input' = [op |-> "nl", req |-> req]
    /\ LET sel == NlToSqlSelect(req, config.groqApiKey)
       IN  IF ~req.naturalLanguage
           THEN output' = [op |-> "nl", status |-> 400, branch |-> "none",
                           attempted |-> "none", call |-> "none", method |-> "none"]
           ELSE output' = [op |-> "nl", status |-> 200, branch |-> sel.branch,
                           attempted |-> sel.attempted, call |-> sel.call,
                           method |-> IF sel.call # "none" /\ callOk
                                      THEN sel.attempted ELSE "rule-based"]
    /\ lastOp' = "nl_to_sql"
    /\ UNCHANGED <<config, phase, pendingStack, fetchingEnabled, currentKeyIndex, store,
                   ticks, head, unhandled, sincePop, provider, calls, tables, userSessions, conn, db, listening, exitStatus, popped, issued>>

NextApi ==
    \/ \E tx \in TxRecords : InsertTransactionCall(tx)
    \/ \E text \in SqlTexts : DatabaseQueryCall(text)
    \/ \E body \in QueryBodies : PostQuery(body)
    \/ \E req \in NlRequests, callOk \in BOOLEAN : NlToSql(req, callOk)

SpecApi == InitApi /\ [][NextApi]_vars

\* ---------------------------------------------------------------------------
\* SpecRoutes: one call of a route handler that is a function of the request
\* and of the table: POST /nl-to-sql and GET /transactions/stats
\* ---------------------------------------------------------------------------
\* A natural-language text is the sequence of its characters.  The texts
\* are made of a few words: any MaxPairLen of them, and up to MaxNlLen of the
\* words a rule before the address rule, a number or an address is made of.
\* the example of the documentation
ExampleSentence ==
    <<"S", "h", "o", "w", " ", "m", "e", " ", "t", "h", "e", " ", "1", "0", " ", "m", "o", "s", "t",
            " ", "r", "e", "c", "e", "n", "t", " ", "t", "r", "a", "n", "s", "a", "c", "t", "i", "o",
            "n", "s">>

NlTexts ==
    LET core  == { <<"S", "h", "o", "w">>, <<" ">>, <<"r", "e", "c", "e", "n", "t">>, <<"l", "a", "r",
            "g", "e">>, <<"1">>, <<"5">>, <<"0">>,
                   <<"0", "x", "A", "b", "A", "b", "A", "b", "A", "b", "A", "b", "A", "b", "A", "b",
                           "A", "b", "A", "b", "A", "b", "A", "b", "A", "b", "A", "b", "A", "b", "A",
                           "b", "A", "b", "A", "b", "A", "b", "A", "b", "A", "b">> }
        words == core \cup { <<"t", "r", "a", "n", "s", "a", "c", "t", "i", "o", "n", "s">>, <<"c",
                "o", "u", "n", "t">>, <<"t", "o", "p">>, <<"v", "a", "l", "u", "e">>, <<"t", "o", "d",
                "a", "y">>, <<"g", "a", "s">>,
                             <<"e", "t", "h">>, <<"h", "o", "u", "r">> }
        RECURSIVE flatten(_)
        flatten(ws) == IF ws = <<>> THEN <<>> ELSE Head(ws) \o flatten(Tail(ws))
    IN  { flatten(ws) : ws \in UNION { [1..k -> words] : k \in 0..MaxPairLen } }
            \cup { flatten(ws) : ws \in UNION { [1..k -> core] : k \in 0..MaxNlLen } }
            \cup { ExampleSentence }

\* String.prototype.toLowerCase
ToLowerCase(s) ==
    LET upper == <<"A", "B", "C", "D", "E", "F", "G", "H", "I", "J", "K", "L", "M", "N", "O", "P",
            "Q", "R", "S", "T", "U", "V", "W", "X", "Y", "Z">>
        lower == <<"a", "b", "c", "d", "e", "f", "g", "h", "i", "j", "k", "l", "m", "n", "o", "p",
                "q", "r", "s", "t", "u", "v", "w", "x", "y", "z">>
        low(c) == IF \E j \in 1..Len(upper) : upper[j] = c
                  THEN lower[CHOOSE j \in 1..Len(upper) : upper[j] = c] ELSE c
    IN  [i \in 1..Len(s) |-> low(s[i])]

\* String.prototype.includes on a text
IncludesText(s, k) ==
    \E i \in 1..(Len(s) - Len(k) + 1) : s[i] = k[1] /\ SubSeq(s, i, i + Len(k) - 1) = k

IsDigit(c) == c \in { "0", "1", "2", "3", "4", "5", "6", "7", "8", "9" }

\* nl.match(/0x[a-fA-F0-9]{40}/): the leftmost match, <<>> for null
AddressMatch(s) ==
    LET IsHex(c) == IsDigit(c) \/ c \in { "a", "b", "c", "d", "e", "f", "A", "B", "C", "D", "E", "F" }
        at(i) == /\ i + AddressLen + 1 <= Len(s)
                 /\ s[i] = "0" /\ s[i + 1] = "x"
                 /\ \A j \in (i + 2)..(i + AddressLen + 1) : IsHex(s[j])
        hits == { i \in 1..Len(s) : at(i) }
    IN  IF hits = {} THEN <<>>
        ELSE LET i == CHOOSE h \in hits : \A g \in hits : h <= g
             IN  SubSeq(s, i, i + AddressLen + 1)

\* nl.match(/([\d.]+)\s*eth/i)[1] for texts without a dot: the leftmost run
\* of digits that white space and "eth" follow, <<>> for null
EthMatch(s) ==
    LET runEnd(i) == CHOOSE j \in i..Len(s) :
                        /\ \A m \in i..j : IsDigit(s[m])
                        /\ (j = Len(s) \/ ~IsDigit(s[j + 1]))
        afterSpace(j) == CHOOSE m \in (j + 1)..(Len(s) + 1) :
                        /\ \A x \in (j + 1)..(m - 1) : s[x] = " "
                        /\ (m = Len(s) + 1 \/ s[m] # " ")
        at(i) == /\ IsDigit(s[i])
                 /\ LET m == afterSpace(runEnd(i))
                    IN  m + 2 <= Len(s) /\ ToLowerCase(SubSeq(s, m, m + 2)) = <<"e", "t", "h">>
        hits == { i \in 1..Len(s) : at(i) }
    IN  IF hits = {} THEN <<>>
        ELSE LET i == CHOOSE h \in hits : \A g \in hits : h <= g
             IN  SubSeq(s, i, runEnd(i))

\* `${parseFloat(digits) * 1000000000000000000}` for a run of digits: below
\* 1e21 the integer in full, from there on the exponent form
RECURSIVE StripZeros(_)
StripZeros(d) == IF d # <<>> /\ d[1] = "0" THEN StripZeros(Tail(d)) ELSE d

WeiAmount(digits) ==
    LET RECURSIVE StripTrailingZeros(_)
        StripTrailingZeros(t) ==
            IF t # <<>> /\ t[Len(t)] = "0" THEN StripTrailingZeros(SubSeq(t, 1, Len(t) - 1)) ELSE t
        d == StripZeros(digits)
        zeros == [i \in 1..18 |-> "0"]
        decimal == <<"0", "1", "2", "3", "4", "5", "6", "7", "8", "9">>
        exponent == 17 + Len(d)
        rest == StripTrailingZeros(Tail(d))
    IN  IF d = <<>> THEN <<"0">>
        ELSE IF Len(d) <= 3 THEN d \o zeros
        ELSE <<d[1]>> \o (IF rest = <<>> THEN <<>> ELSE <<".">> \o rest)
                 \o <<"e", "+", decimal[(exponent \div 10) + 1], decimal[(exponent % 10) + 1]>>

\* A SQL text the converter returns is a sequence of pieces of text, the
\* first of them "SELECT"; an address or an amount is spliced in character by
\* character, as the template literal does.
RecentLimit(n) ==
    <<"SELECT", " * FROM transactions ORDER BY created_at DESC LIMIT ">> \o n \o <<";">>

AddressQuery(address) ==
    <<"SELECT", " * FROM transactions WHERE from_address = '">> \o address
        \o <<"' OR to_address = '">> \o address \o <<"' ORDER BY created_at DESC LIMIT 20;">>

\* the rules of convertNaturalLanguageToSQL in the order of the code
RuleNames ==
    <<"large", "recent", "count", "top", "value", "daily", "gas", "address", "show", "eth", "hour">>

\* the condition of the if statement of a rule
RuleTest(nl, rule) ==
    LET has(k) == IncludesText(nl, k)
    IN  CASE rule = "large"   -> has(<<"l", "a", "r", "g", "e">>) \/ has(<<"b", "i",
            "g">>) \/ has(<<"e", "x", "p", "e", "n", "s", "i", "v", "e">>)
          [] rule = "recent"  -> has(<<"r", "e", "c", "e", "n", "t">>) \/ has(<<"l", "a", "t", "e",
                  "s", "t">>) \/ has(<<"l", "a", "s", "t">>) \/ has(<<"p", "a", "s", "t">>)
          [] rule = "count"   -> has(<<"c", "o", "u", "n", "t">>) \/ has(<<"h", "o", "w", " ", "m",
                  "a", "n", "y">>)
          [] rule = "top"     -> has(<<"t", "o", "p">>) \/ has(<<"m", "o", "s", "t", " ", "a", "c",
                  "t", "i", "v", "e">>)
          [] rule = "value"   -> has(<<"v", "a", "l", "u", "e">>) \/ has(<<"a", "m", "o", "u", "n",
                  "t">>) \/ has(<<"h", "i", "g", "h", "e", "s", "t">>) \/ has(<<"l", "a", "r", "g",
                  "e", "s", "t">>)
          [] rule = "daily"   -> has(<<"t", "o", "d", "a", "y">>) \/ has(<<"d", "a", "i", "l", "y">>)
          [] rule = "gas"     -> has(<<"g", "a", "s">>)
          [] rule = "address" -> AddressMatch(nl) # <<>>
          [] rule = "show"    -> has(<<"s", "h", "o", "w">>) /\ (has(<<"t", "r", "a", "n", "s", "a",
                  "c", "t", "i", "o", "n">>) \/ has(<<"t", "x">>))
          [] rule = "eth"     -> EthMatch(nl) # <<>>
          [] rule = "hour"    -> has(<<"h", "o", "u", "r">>)

\* what the body of the if statement of a rule returns
RuleSql(nl, rule) ==
    LET has(k) == IncludesText(nl, k)
        LastHour ==
            <<"SELECT",
                    " * FROM transactions WHERE created_at >= NOW() - INTERVAL 1 HOUR ORDER BY created_at DESC LIMIT 50;">>
        ByValue(bound) ==
            <<"SELECT",
                    " hash, from_address, to_address, CAST(value AS DOUBLE)/1000000000000000000.0 as eth_value FROM transactions WHERE CAST(value AS DOUBLE) > ">>
                \o bound \o <<" ORDER BY CAST(value AS DOUBLE) DESC LIMIT 10;">>
        BySender ==
            <<"SELECT",
                    " from_address, COUNT(*) as tx_count FROM transactions GROUP BY from_address ORDER BY tx_count DESC LIMIT 10;">>
    IN  CASE rule = "large"   -> ByValue(<<"100000000000000000">>)
          [] rule = "recent"  -> IF has(<<"5">>) THEN RecentLimit(<<"5">>)
                                 ELSE IF has(<<"1", "0">>) \/ has(<<"t", "e",
                                         "n">>) THEN RecentLimit(<<"1", "0">>)
                                 ELSE IF has(<<"h", "o", "u", "r">>) \/ has(<<"t", "o", "d", "a",
                                         "y">>) THEN LastHour
                                 ELSE RecentLimit(<<"2", "0">>)
          [] rule = "count"   -> IF has(<<"a", "d", "d", "r", "e", "s", "s">>)
                                 THEN <<"SELECT",
                                         " COUNT(DISTINCT from_address) as unique_senders, COUNT(DISTINCT to_address) as unique_receivers FROM transactions;">>
                                 ELSE <<"SELECT", " COUNT(*) as total_transactions FROM transactions;">>
          [] rule = "top"     -> IF has(<<"s", "e", "n", "d", "e", "r">>) THEN BySender
                                 ELSE IF has(<<"r", "e", "c", "e", "i", "v", "e", "r">>)
                                 THEN <<"SELECT",
                                         " to_address, COUNT(*) as tx_count FROM transactions GROUP BY to_address ORDER BY tx_count DESC LIMIT 10;">>
                                 ELSE BySender
          [] rule = "value"   -> IF has(<<"a", "v", "e", "r", "a", "g", "e">>) \/ has(<<"a", "v", "g">>)
                                 THEN <<"SELECT",
                                         " AVG(CAST(value AS DOUBLE)) as avg_value_wei, AVG(CAST(value AS DOUBLE))/1000000000000000000.0 as avg_value_eth FROM transactions WHERE CAST(value AS DOUBLE) > 0;">>
                                 ELSE IF has(<<"h", "i", "g", "h", "e", "s", "t">>) \/ has(<<"m", "a",
                                         "x">>) \/ has(<<"l", "a", "r", "g", "e", "s",
                                         "t">>) THEN ByValue(<<"0">>)
                                 ELSE ByValue(<<"0">>)
          [] rule = "daily"   -> <<"SELECT",
                  " DATE(created_at) as date, COUNT(*) as daily_txs FROM transactions GROUP BY DATE(created_at) ORDER BY date DESC LIMIT 7;">>
          [] rule = "gas"     -> IF has(<<"p", "r", "i", "c", "e">>)
                                 THEN <<"SELECT",
                                         " AVG(CAST(gas_price AS DOUBLE)) as avg_gas_price, MAX(CAST(gas_price AS DOUBLE)) as max_gas_price FROM transactions;">>
                                 ELSE <<"SELECT",
                                         " hash, gas_price, gas_limit FROM transactions ORDER BY CAST(gas_price AS DOUBLE) DESC LIMIT 10;">>
          [] rule = "address" -> AddressQuery(AddressMatch(nl))
          [] rule = "show"    -> IF has(<<"5">>) THEN RecentLimit(<<"5">>)
                                 ELSE IF has(<<"1", "0">>) THEN RecentLimit(<<"1", "0">>)
                                 ELSE RecentLimit(<<"2", "0">>)
          [] rule = "eth"     -> ByValue(WeiAmount(EthMatch(nl)))
          [] rule = "hour"    -> LastHour

\* the statements of the function from the i-th rule on, and the default
\* after the last
RECURSIVE ConvertFrom(_, _, _)
ConvertFrom(nl, order, i) ==
    IF i > Len(order) THEN RecentLimit(<<"1", "0">>)
    ELSE IF RuleTest(nl, order[i]) THEN RuleSql(nl, order[i])
    ELSE ConvertFrom(nl, order, i + 1)

\* variant: the recency rule is tried before the large-value rule
ConvertNaturalLanguageToSQL_RecentFirst(nl) ==
    ConvertFrom(nl, <<RuleNames[2], RuleNames[1]>> \o SubSeq(RuleNames, 3, Len(RuleNames)), 1)

\* convertNaturalLanguageToSQL(nl)
ConvertNaturalLanguageToSQL(nl) == ConvertFrom(nl, RuleNames, 1)

\* What the provider's API answers to the one request of convertWithGroq,
\* convertWithOpenAI, convertWithClaude or convertWithGemini: fetch rejects,
\* a status that is not 2xx, a body without the expected fields, or a body
\* whose content is a text (the empty text for a missing or empty content)
NoReply == [kind |-> "none", content |-> <<>>]

ProviderReplies ==
    { [kind |-> k, content |-> <<>>] : k \in {"network", "status", "malformed"} }
        \cup { [kind |-> "content", content |-> t] : t \in SqlTexts }

\* variant: the generated text is returned without the SELECT test
ConvertWithApi_NoSelectTest(reply) ==
    IF reply.kind # "content" THEN [ok |-> FALSE, sqlQuery |-> <<>>, error |-> reply.kind]
    ELSE IF Trim(reply.content) = <<>>
    THEN [ok |-> FALSE, sqlQuery |-> <<>>, error |-> "No SQL query generated"]
    ELSE [ok |-> TRUE, sqlQuery |-> Trim(reply.content), error |-> ""]

\* convertWithGroq and its three siblings after the fetch: what is returned
\* or thrown
ConvertWithApi(reply) ==
    IF reply.kind # "content" THEN [ok |-> FALSE, sqlQuery |-> <<>>, error |-> reply.kind]
    ELSE IF Trim(reply.content) = <<>>
    THEN [ok |-> FALSE, sqlQuery |-> <<>>, error |-> "No SQL query generated"]
    ELSE IF ~StartsWith(Trim(ToUpperCase(Trim(reply.content))), "SELECT")
    THEN [ok |-> FALSE, sqlQuery |-> <<>>, error |-> "Generated query is not a SELECT statement"]
    ELSE [ok |-> TRUE, sqlQuery |-> Trim(reply.content), error |-> ""]

\* convertWithProvider: the switch on the provider
ConvertWithProvider(name, reply) ==
    IF name \in SupportedProviders THEN ConvertWithApi(reply)
    ELSE [ok |-> FALSE, sqlQuery |-> <<>>, error |-> "Unsupported provider"]

\* variant: usedProvider is assigned before the provider is called
NlToSqlResponse_MethodBeforeCall(req, groqApiKey, reply) ==
    LET sel == NlToSqlSelect(req, groqApiKey)
        c   == IF sel.branch = "provider" THEN ConvertWithProvider(req.provider, reply)
               ELSE ConvertWithApi(reply)
    IN  IF req.naturalLanguage = <<>>
        THEN [status |-> 400, sqlQuery |-> <<>>, method |-> "none"]
        ELSE IF sel.branch # "rule-based" /\ c.ok
        THEN [status |-> 200, sqlQuery |-> c.sqlQuery, method |-> sel.attempted]
        ELSE [status |-> 200,
              sqlQuery |-> ConvertNaturalLanguageToSQL(ToLowerCase(req.naturalLanguage)),
              method |-> sel.attempted]

\* POST /nl-to-sql: the response to req when the API the handler calls, if it
\* calls one, answers reply
NlToSqlResponse(req, groqApiKey, reply) ==
    LET sel == NlToSqlSelect(req, groqApiKey)
        c   == IF sel.branch = "provider" THEN ConvertWithProvider(req.provider, reply)
               ELSE ConvertWithApi(reply)
    IN  IF req.naturalLanguage = <<>>
        THEN [status |-> 400, sqlQuery |-> <<>>, method |-> "none"]
        ELSE IF sel.branch # "rule-based" /\ c.ok
        THEN [status |-> 200, sqlQuery |-> c.sqlQuery, method |-> sel.attempted]
        ELSE [status |-> 200,
              sqlQuery |-> ConvertNaturalLanguageToSQL(ToLowerCase(req.naturalLanguage)),
              method |-> "rule-based"]

\* The value column holds texts: tx.value.toString() of the chain's amounts,
\* which can pass 2^63 - 1 wei, and whatever else a row was written with
ValueStrings ==
    { <<"0">>, <<"7">>, <<"1", "0", "0", "0", "0", "0", "0", "0", "0", "0", "0", "0", "0", "0", "0",
            "0", "0", "0", "0">>,
      <<"9", "2", "2", "3", "3", "7", "2", "0", "3", "6", "8", "5", "4", "7", "7", "5", "8", "0", "7">>,
       <<"9", "2", "2", "3", "3", "7", "2", "0", "3", "6", "8", "5", "4", "7", "7", "5", "8", "0",
               "8">>, <<"a", "b", "c">> }

\* CAST(value AS BIGINT) of the engine: a conversion error unless the text
\* is a decimal integer of the signed 64-bit range
CastAsBigInt(v) ==
    LET Int64Max == <<"9", "2", "2", "3", "3", "7", "2", "0", "3", "6", "8", "5", "4", "7", "7", "5",
            "8", "0", "7">>
        decimal == <<"0", "1", "2", "3", "4", "5", "6", "7", "8", "9">>
        val(c) == CHOOSE k \in 0..9 : decimal[k + 1] = c
        d == StripZeros(v)
        below == \E i \in 1..Len(d) :
                    /\ \A j \in 1..(i - 1) : d[j] = Int64Max[j]
                    /\ val(d[i]) < val(Int64Max[i])
    IN  /\ v # <<>>
        /\ \A i \in 1..Len(v) : IsDigit(v[i])
        /\ \/ Len(d) < Len(Int64Max)
           \/ Len(d) = Len(Int64Max) /\ (d = Int64Max \/ below)

\* getTransactionStats: one SELECT of aggregates; the cast error of one row
\* fails the statement, and the promise of query rejects
GetTransactionStats(rows) ==
    IF \E r \in rows : ~CastAsBigInt(r.value)
    THEN [ok |-> FALSE, total_transactions |-> 0, averaged |-> 0]
    ELSE [ok |-> TRUE, total_transactions |-> Cardinality(rows), averaged |-> Cardinality(rows)]

\* ---- the specification
\* the requests of POST /nl-to-sql (every text without hint, session and
\* server credential; three texts with every hint and session) and the tables
\* of at most MaxRows rows, one row per hash, GET /transactions/stats reads
RouteInputs(c) ==
    LET ShowAddress == <<"t", "x", "s", " ", "o", "f", " ", "0", "x", "A", "b", "A", "b", "A", "b",
                           "A", "b", "A", "b", "A", "b", "A", "b", "A", "b", "A", "b", "A", "b",
                           "A", "b", "A", "b", "A", "b", "A", "b", "A", "b", "A", "b", "A", "b",
                           "A", "b", "A", "b", "A", "b">>
        StatsTables ==
            UNION { { { [hash |-> h, value |-> f[h]] : h \in H } : f \in [H -> ValueStrings] } :
                      H \in SUBSET (1..MaxRows) }
    IN
    { [op |-> "nl", req |-> [naturalLanguage |-> t, provider |-> "", session |-> "none",
                             decryptOk |-> TRUE], rows |-> {}] :
        t \in IF c.groqApiKey THEN {} ELSE NlTexts }
    \cup { [op |-> "nl", req |-> r, rows |-> {}] :
             r \in [naturalLanguage : { <<>>, ExampleSentence, ShowAddress },
                    provider : ProviderHints, session : {"none", "unknown", "known"},
                    decryptOk : BOOLEAN] }
    \cup { [op |-> "stats", req |-> NoReply, rows |-> t] : t \in StatsTables }

InitRoutes ==
    /\ config \in ApiConfigs
    /\ NewService
    /\ input \in RouteInputs(config)
    /\ output = NoOutput

\* POST /nl-to-sql with input.req
ApplyNlToSql ==
    /\ input.op = "nl"
    /\ output.op = "none"
    /\ LET sel == NlToSqlSelect(input.req, config.groqApiKey)
           called == input.req.naturalLanguage # <<>> /\ sel.call # "none"
       IN  \E reply \in IF called THEN ProviderReplies ELSE {NoReply} :
              output' = [op |-> "nl", branch |-> sel.branch, attempted |-> sel.attempted,
                         called |-> called, reply |-> reply,
                         produced |-> IF sel.branch = "provider"
                                      THEN ConvertWithProvider(input.req.provider, reply)
                                      ELSE IF sel.branch = "default" THEN ConvertWithApi(reply)
                                      ELSE [ok |-> FALSE, sqlQuery |-> <<>>, error |-> "no call"],
                         response |-> NlToSqlResponse(input.req, config.groqApiKey, reply)]
    /\ UNCHANGED <<config, phase, pendingStack, fetchingEnabled, currentKeyIndex, store,
                   ticks, head, unhandled, sincePop, lastOp, input, provider, calls, tables,
                   userSessions, conn, db, listening, exitStatus, popped, issued>>

\* GET /transactions/stats on the table input.rows
ApplyTransactionStats ==
    /\ input.op = "stats"
    /\ output.op = "none"
    /\ LET s == GetTransactionStats(input.rows)
       IN  output' = [op |-> "stats", status |-> IF s.ok THEN 200 ELSE 500, stats |-> s]
    /\ UNCHANGED <<config, phase, pendingStack, fetchingEnabled, currentKeyIndex, store,
                   ticks, head, unhandled, sincePop, lastOp, input, provider, calls, tables,
                   userSessions, conn, db, listening, exitStatus, popped, issued>>

NextRoutes ==
    \/ ApplyNlToSql
    \/ ApplyTransactionStats

SpecRoutes == InitRoutes /\ [][NextRoutes]_vars

\* ---------------------------------------------------------------------------
\* SpecLife: the process from main() to its exit: app.initialize, app.start,
\* the ingestion loop, and the shutdown on SIGINT or SIGTERM
\* ---------------------------------------------------------------------------
\* main() has registered the signal handlers and not yet called initialize
InitLife ==
    /\ config \in {c \in PoolConfigs : c.numKeys <= 2}
    /\ phase = "new"
    /\ conn = "null"
    /\ db = "null"
    /\ popped = 0
    /\ issued = 0
    /\ userSessions = <<>>
    /\ listening = "no"
    /\ exitStatus = "none"
    /\ pendingStack = <<>>
    /\ fetchingEnabled = TRUE
    /\ currentKeyIndex = 0
    /\ store = {}
    /\ ticks = EmptyBag
    /\ head = 0
    /\ unhandled = FALSE
    /\ sincePop = "none"
    /\ lastOp = "init"
    /\ provider = 0
    /\ calls = EmptyBag
    /\ tables = {"transactions"}
    /\ input = NoInput
    /\ output = NoOutput

\* the process has not exited
Alive == exitStatus = "none"

\* variant: close calls close on every handle the object ever held
Close_Unguarded(d, connThrows, dbThrows) ==
    [conn |-> IF d.conn = "null" THEN "null" ELSE "closed",
     db |-> IF d.db = "null" THEN "null" ELSE "closed",
     released |-> {h \in {"conn", "db"} : d[h] # "null"}, raised |-> FALSE]

\* TransactionDatabase.close() on the handles d; connThrows, dbThrows: what
\* the close of the connection and of the database do when they are called.
\* released: the handles whose close was called and returned; raised: an
\* error leaves close()
Close(d, connThrows, dbThrows) ==
    IF d.conn = "open" /\ connThrows
    THEN [conn |-> d.conn, db |-> d.db, released |-> {}, raised |-> FALSE]
    ELSE LET c == [conn |-> IF d.conn = "open" THEN "closed" ELSE d.conn,
                   released |-> IF d.conn = "open" THEN {"conn"} ELSE {}]
         IN  IF d.db = "open" /\ dbThrows
             THEN [conn |-> c.conn, db |-> d.db, released |-> c.released, raised |-> FALSE]
             ELSE [conn |-> c.conn, db |-> IF d.db = "open" THEN "closed" ELSE d.db,
                   released |-> c.released \cup (IF d.db = "open" THEN {"db"} ELSE {}),
                   raised |-> FALSE]

\* variant: the catch of app.initialize logs the error and returns
MainAfterInitializeError_Swallowed == [exit |-> FALSE, start |-> TRUE]

\* an error of database.initialize: the catch of app.initialize rethrows it,
\* so main does not reach app.start, and the catch of main exits with 1
MainAfterInitializeError == [exit |-> TRUE, start |-> FALSE]

\* app.initialize up to the await of createTables: the data directory, the
\* database and the connection are made, or one of them throws
AppInitialize(opened) ==
    /\ Alive
    /\ phase = "new"
    /\ IF opened
       THEN /\ phase' = "initializing"
            /\ conn' = "open"
            /\ db' = "open"
            /\ lastOp' = "step"
            /\ UNCHANGED <<listening, exitStatus, issued>>
       ELSE /\ phase' = "failed"
            /\ conn' = conn
            /\ db' = db
            /\ lastOp' = "init_failed"
            /\ exitStatus' = IF MainAfterInitializeError.exit THEN "failure" ELSE exitStatus
            /\ listening' = IF MainAfterInitializeError.start THEN "called" ELSE listening
    /\ UNCHANGED <<config, pendingStack, fetchingEnabled, currentKeyIndex, store, ticks, head,
                   unhandled, sincePop, input, output, provider, calls, tables, userSessions, popped, issued>>

\* createTables resolves: the service is constructed, startFetching makes the
\* first fetch and sets the interval, and main calls app.start
CreateTablesResolves ==
    /\ Alive
    /\ phase = "initializing"
    /\ phase' = "running"
    /\ listening' = "called"
    /\ FetchLatestTransactions

\* createTables rejects
CreateTablesRejects ==
    /\ Alive
    /\ phase = "initializing"
    /\ phase' = "failed"
    /\ lastOp' = "init_failed"
    /\ exitStatus' = IF MainAfterInitializeError.exit THEN "failure" ELSE exitStatus
    /\ listening' = IF MainAfterInitializeError.start THEN "called" ELSE listening
    /\ UNCHANGED <<config, pendingStack, fetchingEnabled, currentKeyIndex, store, ticks, head,
                   unhandled, sincePop, input, output, provider, calls, tables, userSessions,
                   conn, db, popped, issued>>

\* the callback of app.listen: the server listens, or the port cannot be
\* bound and the process ends with a failure
ListenCallback(bound) ==
    /\ Alive
    /\ listening = "called"
    /\ IF bound
       THEN listening' = "yes" /\ exitStatus' = exitStatus /\ lastOp' = "step"
       ELSE listening' = "no" /\ exitStatus' = "failure" /\ lastOp' = "listen_failed"
    /\ UNCHANGED <<config, phase, pendingStack, fetchingEnabled, currentKeyIndex, store, ticks,
                   head, unhandled, sincePop, input, output, provider, calls, tables,
                   userSessions, conn, db, popped, issued>>

\* SIGINT or SIGTERM: app.shutdown calls stopFetching and database.close one
\* after the other, and the handler exits with 0 as soon as the await of
\* shutdown returns; what the ticks in flight still awaited stays undone
Shutdown(connThrows, dbThrows) ==
    /\ Alive
    /\ phase' = IF phase = "running" THEN "stopped" ELSE phase
    /\ conn' = Close([conn |-> conn, db |-> db], connThrows, dbThrows).conn
    /\ db' = Close([conn |-> conn, db |-> db], connThrows, dbThrows).db
    /\ listening' = "no"
    /\ exitStatus' = "success"
    /\ lastOp' = "shutdown"
    /\ UNCHANGED <<config, pendingStack, fetchingEnabled, currentKeyIndex, store, ticks, head,
                   unhandled, sincePop, input, output, provider, calls, tables, userSessions, popped, issued>>

NextLife ==
    \/ \E opened \in BOOLEAN : AppInitialize(opened)
    \/ CreateTablesResolves
    \/ CreateTablesRejects
    \/ \E bound \in BOOLEAN : ListenCallback(bound)
    \/ \E connThrows \in BOOLEAN, dbThrows \in BOOLEAN : Shutdown(connThrows, dbThrows)
    \/ Alive /\ TimerTick
    \/ Alive /\ \E r \in BagToSet(ticks) : CallResolves(r)
    \/ Alive /\ \E r \in BagToSet(ticks), e \in ProviderErrors : CallRejects(r, e)
    \/ Alive /\ \E r \in BagToSet(ticks) : DelayElapses(r)
    \/ Alive /\ \E r \in BagToSet(ticks) : InsertResolves(r)
    \/ Alive /\ \E r \in BagToSet(ticks) :
                  \E landed \in SUBSET (1..BlockSize(r.blockNumber)) : InsertRejects(r, landed)
    \/ Alive /\ listening = "yes" /\ \E q \in QueryN : PendingQueue(q)
    \/ Alive /\ NewBlock

SpecLife == InitLife /\ [][NextLife]_vars

\* ---------------------------------------------------------------------------
\* SpecStore: the database object from the end of initialize on, under
\* insertTransaction while the connection is there and under close()
\* ---------------------------------------------------------------------------
\* database.close(), called by whoever holds the object
DatabaseClose(connThrows, dbThrows) ==
    LET c == Close([conn |-> conn, db |-> db], connThrows, dbThrows)
    IN  /\ input' = [op |-> "close", conn |-> conn, db |-> db]
        /\ conn' = c.conn
        /\ db' = c.db
        /\ output' = [op |-> "close", released |-> c.released, raised |-> c.raised]
        /\ lastOp' = "close"
        /\ UNCHANGED <<config, phase, pendingStack, fetchingEnabled, currentKeyIndex, store,
                       ticks, head, unhandled, sincePop, provider, calls, tables, userSessions,
                       popped, listening, exitStatus, issued>>

NextStore ==
    \/ conn = "open" /\ \E tx \in TxRecords : InsertTransactionCall(tx)
    \/ \E connThrows \in BOOLEAN, dbThrows \in BOOLEAN : DatabaseClose(connThrows, dbThrows)

SpecStore == InitApi /\ [][NextStore]_vars

\* ---------------------------------------------------------------------------
\* SpecConfig: config.js is loaded with an environment, validateConfig runs,
\* and main goes on to initialize and start the application
\* ---------------------------------------------------------------------------
\* A variable of the environment is a text, a sequence of characters;
\* <<"undefined">> stands for a variable that is not set.
\* parseInt(text): an optional sign and the leading decimal digits, NaN
\* without a digit (the texts explored have no leading blanks)
ParseInt(s) ==
    LET t == IF s # <<>> /\ s[1] \in {"-", "+"} THEN Tail(s) ELSE s
        n == CHOOSE k \in 0..Len(t) :
                /\ \A i \in 1..k : IsDigit(t[i])
                /\ k = Len(t) \/ ~IsDigit(t[k + 1])
        DigitValue(c) == CHOOSE d \in 0..9 :
                            c = <<"0", "1", "2", "3", "4", "5", "6", "7", "8", "9">>[d + 1]
        RECURSIVE Value(_)
        Value(k) == IF k = 0 THEN 0 ELSE 10 * Value(k - 1) + DigitValue(t[k])
    IN  [isNaN |-> n = 0,
         value |-> IF n = 0 THEN 0 ELSE IF s[1] = "-" THEN 0 - Value(n) ELSE Value(n)]

\* the config object of an environment: the fields validateConfig reads
LoadConfig(env) ==
    LET RECURSIVE SplitComma(_)
        SplitComma(t) ==
            IF \A i \in 1..Len(t) : t[i] # ","
            THEN <<t>>
            ELSE LET k == CHOOSE i \in 1..Len(t) : t[i] = "," /\ \A j \in 1..(i - 1) : t[j] # ","
                 IN  <<SubSeq(t, 1, k - 1)>> \o SplitComma(SubSeq(t, k + 1, Len(t)))
    IN  [infuraApiKeys |-> IF env.INFURA_API_KEYS \notin {<<"undefined">>, <<>>}
                           THEN SplitComma(env.INFURA_API_KEYS)
                           ELSE <<env.INFURA_API_KEY>>,
         stackCapacity |-> OrDefault(ParseInt(env.STACK_CAPACITY), DefaultStackCapacity),
         stackResumeThreshold |->
             OrDefault(ParseInt(env.STACK_RESUME_THRESHOLD), DefaultStackResumeThreshold),
         encryptionKey |-> env.ENCRYPTION_KEY]

\* validateConfig: the errors it collects; the process exits with 1 unless
\* there is none
ValidateConfigErrors(c) ==
    (IF Len(c.infuraApiKeys) = 0 \/ c.infuraApiKeys[1] = <<"undefined">>
     THEN {"INFURA_API_KEY or INFURA_API_KEYS is required"} ELSE {})
    \cup (IF c.encryptionKey \in {<<"undefined">>, <<>>}
             \/ Len(c.encryptionKey) < MinEncryptionKeyLength
          THEN {"ENCRYPTION_KEY is required and must be at least 32 characters"} ELSE {})
    \cup (IF c.stackCapacity <= c.stackResumeThreshold
          THEN {"STACK_CAPACITY must be greater than STACK_RESUME_THRESHOLD"} ELSE {})

\* the environments explored
Envs ==
    LET numbers == { <<"undefined">>, <<>>, <<"a", "b", "c">>, <<"0">>, <<"-", "1">>, <<"1">>,
                     <<"2">>, <<"3">>, <<"2", "x">>, <<"6", "0", "0", "0">> }
    IN  [op : {"env"},
         INFURA_API_KEYS : { <<"undefined">>, <<>>, <<"k">>, <<"k", ",", "m">>, <<",">> },
         INFURA_API_KEY : { <<"undefined">>, <<>>, <<"k">> },
         STACK_CAPACITY : numbers,
         STACK_RESUME_THRESHOLD : numbers,
         ENCRYPTION_KEY : { <<"undefined">>, <<"s", "h", "o", "r", "t">>,
                            [i \in 1..MinEncryptionKeyLength |-> "e"] }]

\* require('./config') has built the config object; validateConfig() is next
InitConfig ==
    /\ input \in Envs
    /\ config = LoadConfig(input)
    /\ phase = "loading"
    /\ conn = "null"
    /\ db = "null"
    /\ popped = 0
    /\ issued = 0
    /\ userSessions = <<>>
    /\ listening = "no"
    /\ exitStatus = "none"
    /\ pendingStack = <<>>
    /\ fetchingEnabled = TRUE
    /\ currentKeyIndex = 0
    /\ store = {}
    /\ ticks = EmptyBag
    /\ head = 0
    /\ unhandled = FALSE
    /\ sincePop = "none"
    /\ lastOp = "init"
    /\ provider = 0
    /\ calls = EmptyBag
    /\ tables = {"transactions"}
    /\ output = NoOutput

\* validateConfig() at the end of config.js, then main() up to app.initialize
RequireConfig ==
    /\ Alive
    /\ phase = "loading"
    /\ output' = [op |-> "validate", errors |-> ValidateConfigErrors(config)]
    /\ IF ValidateConfigErrors(config) # {}
       THEN phase' = "failed" /\ exitStatus' = "failure" /\ lastOp' = "config_rejected"
       ELSE phase' = "new" /\ exitStatus' = exitStatus /\ lastOp' = "config_accepted"
    /\ UNCHANGED <<config, pendingStack, fetchingEnabled, currentKeyIndex, store, ticks, head,
                   unhandled, sincePop, input, provider, calls, tables, userSessions, conn, db,
                   listening, popped, issued>>

NextConfig ==
    \/ RequireConfig
    \/ \E opened \in BOOLEAN : AppInitialize(opened)
    \/ CreateTablesResolves
    \/ CreateTablesRejects
    \/ \E bound \in BOOLEAN : ListenCallback(bound)

SpecConfig == InitConfig /\ [][NextConfig]_vars

\* ---------------------------------------------------------------------------
\* SpecAuth: the session map and the routes that write or list it
\* ---------------------------------------------------------------------------
\* A credential is a text, given as its prefix and its secret part.  The
\* dates of a session (createdAt, lastUsed) are left out.
ApiKeys == { <<"sk-", "secret-1">>, <<"gsk_", "secret-2">> }

\* variant: the text is stored as it is
Encrypt_Plain(text) == text

\* encrypt(text): the hexadecimal iv, a colon, and the text under
\* aes-256-cbc with the key derived from ENCRYPTION_KEY
Encrypt(text) == <<"iv", ":", "aes-256-cbc(">> \o text \o <<")">>

\* decrypt(encryptedText): the text of a blob of encrypt, an exception for
\* any other text
Decrypt(blob) ==
    IF Len(blob) >= 4 /\ SubSeq(blob, 1, 3) = <<"iv", ":", "aes-256-cbc(">> /\ blob[Len(blob)] = ")"
    THEN [ok |-> TRUE, text |-> SubSeq(blob, 4, Len(blob) - 1)]
    ELSE [ok |-> FALSE, text |-> <<>>]

\* req.body of POST /auth/connect and of POST /auth/openai/secure-login
\* (which reads apiKey and userId only); "" and <<>> stand for an absent field
AuthBodies ==
    [provider : {"", "openai", "claude", "mistral"}, apiKey : {<<>>} \cup ApiKeys,
     userId : {<<>>, <<"u1">>}]

\* the fields of a response of the auth routes, those a route does not
\* send empty
AuthResponse(status, error, details) ==
    [status |-> status, error |-> error, details |-> details, sessionId |-> 0,
     userId |-> <<>>, provider |-> "", message |-> <<>>, providers |-> {}]

\* userSessions.set(sessionId, session) with a new sessionId (made of the
\* time and a random number: the next number here), and the success response
\* of the route
OpenSession(name, apiKey, userId, secureLogin) ==
    LET sessionId == issued + 1
        sessionUserId == IF userId = <<>> THEN <<"user_", "generated">> ELSE userId
        session == [provider |-> name, apiKey |-> Encrypt(apiKey), userId |-> sessionUserId,
                    isEncrypted |-> TRUE, secureLogin |-> secureLogin]
    IN  /\ issued < MaxSessions
        /\ issued' = sessionId
        /\ userSessions' = [i \in DOMAIN userSessions \cup {sessionId} |->
                               IF i = sessionId THEN session ELSE userSessions[i]]
        /\ output' = [op |-> "connect",
                      response |-> [AuthResponse(200, <<>>, <<>>) EXCEPT
                                       !.sessionId = sessionId, !.userId = sessionUserId,
                                       !.provider = name,
                                       !.message = <<"Successfully connected to ", name>>]]

\* POST /auth/connect; valid: the provider's API accepts the key; encrypted:
\* encrypt returns
AuthConnect(body, valid, encrypted) ==
    /\ input' = [op |-> "connect", body |-> body]
    /\ LET isValid == IF body.provider = "claude" THEN StartsWith(body.apiKey, "sk-") ELSE valid
           refusal ==
               IF body.provider = "" \/ body.apiKey = <<>>
               THEN AuthResponse(400, <<"Provider and API key required">>, <<>>)
               ELSE IF body.provider \notin SupportedProviders
               THEN AuthResponse(400, <<"Unsupported provider">>, <<>>)
               ELSE IF ~isValid
               THEN AuthResponse(401, <<"Invalid API key for provider">>, <<>>)
               ELSE IF ~encrypted
               THEN AuthResponse(500, <<"Authentication failed">>, <<"Failed to encrypt API key">>)
               ELSE AuthResponse(200, <<>>, <<>>)
       IN  IF refusal.status = 200
           THEN OpenSession(body.provider, body.apiKey, body.userId, FALSE)
           ELSE /\ userSessions' = userSessions
                /\ issued' = issued
                /\ output' = [op |-> "connect", response |-> refusal]
    /\ lastOp' = "auth_connect"
    /\ UNCHANGED <<config, phase, pendingStack, fetchingEnabled, currentKeyIndex, store, ticks,
                   head, unhandled, sincePop, provider, calls, tables, conn, db, listening,
                   exitStatus, popped>>

\* POST /auth/openai/secure-login
SecureLogin(body, valid, encrypted) ==
    /\ input' = [op |-> "secure-login", body |-> [body EXCEPT !.provider = ""]]
    /\ LET refusal ==
               IF body.apiKey = <<>> \/ ~StartsWith(body.apiKey, "sk-")
               THEN AuthResponse(400, <<"Valid OpenAI API key required (starts with sk-)">>, <<>>)
               ELSE IF ~valid
               THEN AuthResponse(401, <<"Invalid OpenAI API key or API access denied">>, <<>>)
               ELSE IF ~encrypted
               THEN AuthResponse(500, <<"Secure authentication failed">>, <<"Failed to encrypt API key">>)
               ELSE AuthResponse(200, <<>>, <<>>)
       IN  IF refusal.status = 200
           THEN OpenSession("openai", body.apiKey, body.userId, TRUE)
           ELSE /\ userSessions' = userSessions
                /\ issued' = issued
                /\ output' = [op |-> "connect", response |-> refusal]
    /\ lastOp' = "auth_secure_login"
    /\ UNCHANGED <<config, phase, pendingStack, fetchingEnabled, currentKeyIndex, store, ticks,
                   head, unhandled, sincePop, provider, calls, tables, conn, db, listening,
                   exitStatus, popped>>

\* variant: the session stays in the map
AuthDisconnect_KeepsSession(sessionId) ==
    /\ input' = [op |-> "disconnect", sessionId |-> sessionId]
    /\ IF sessionId # 0 /\ sessionId \in DOMAIN userSessions
       THEN /\ userSessions' = userSessions
            /\ output' = [op |-> "disconnect",
                          response |-> [AuthResponse(200, <<>>, <<>>) EXCEPT
                                           !.message = <<"Disconnected successfully">>]]
       ELSE /\ userSessions' = userSessions
            /\ output' = [op |-> "disconnect",
                          response |-> AuthResponse(404, <<"Session not found">>, <<>>)]
    /\ lastOp' = "auth_disconnect"
    /\ UNCHANGED <<config, phase, pendingStack, fetchingEnabled, currentKeyIndex, store, ticks,
                   head, unhandled, sincePop, provider, calls, tables, conn, db, listening,
                   exitStatus, popped, issued>>

\* POST /auth/disconnect {sessionId}; 0 stands for an absent sessionId
AuthDisconnect(sessionId) ==
    /\ input' = [op |-> "disconnect", sessionId |-> sessionId]
    /\ IF sessionId # 0 /\ sessionId \in DOMAIN userSessions
       THEN /\ userSessions' = [i \in DOMAIN userSessions \ {sessionId} |-> userSessions[i]]
            /\ output' = [op |-> "disconnect",
                          response |-> [AuthResponse(200, <<>>, <<>>) EXCEPT
                                           !.message = <<"Disconnected successfully">>]]
       ELSE /\ userSessions' = userSessions
            /\ output' = [op |-> "disconnect",
                          response |-> AuthResponse(404, <<"Session not found">>, <<>>)]
    /\ lastOp' = "auth_disconnect"
    /\ UNCHANGED <<config, phase, pendingStack, fetchingEnabled, currentKeyIndex, store, ticks,
                   head, unhandled, sincePop, provider, calls, tables, conn, db, listening,
                   exitStatus, popped, issued>>

\* GET /auth/status/:userId
AuthStatus(userId) ==
    /\ input' = [op |-> "status", userId |-> userId]
    /\ output' = [op |-> "status",
                  response |-> [AuthResponse(200, <<>>, <<>>) EXCEPT
                                   !.userId = userId,
                                   !.providers =
                                       { [sessionId |-> i, provider |-> userSessions[i].provider] :
                                           i \in { j \in DOMAIN userSessions :
                                                     userSessions[j].userId = userId } }]]
    /\ lastOp' = "auth_status"
    /\ UNCHANGED <<config, phase, pendingStack, fetchingEnabled, currentKeyIndex, store, ticks,
                   head, unhandled, sincePop, provider, calls, tables, userSessions, conn, db,
                   listening, exitStatus, popped, issued>>

\* POST /nl-to-sql {sessionId, provider} with a text to translate, up to the
\* choice of the branch: apiKey after the session lookup, and the credential
\* that goes to convertWithProvider (none on the other branches)
AuthTranslate(sessionId, hint) ==
    LET found == sessionId # 0 /\ sessionId \in DOMAIN userSessions
        d == IF found THEN Decrypt(userSessions[sessionId].apiKey) ELSE [ok |-> FALSE, text |-> <<>>]
        req == [naturalLanguage |-> ExampleSentence, provider |-> hint,
                session |-> IF sessionId = 0 THEN "none" ELSE IF found THEN "known" ELSE "unknown",
                decryptOk |-> d.ok]
        sel == NlToSqlSelect(req, config.groqApiKey)
    IN  /\ input' = [op |-> "translate", sessionId |-> sessionId, provider |-> hint]
        /\ output' = [op |-> "translate", apiKey |-> d.text, branch |-> sel.branch,
                      sent |-> IF sel.branch = "provider" /\ sel.call # "none" THEN d.text ELSE <<>>]
        /\ lastOp' = "auth_translate"
        /\ UNCHANGED <<config, phase, pendingStack, fetchingEnabled, currentKeyIndex, store, ticks,
                       head, unhandled, sincePop, provider, calls, tables, userSessions, conn, db,
                       listening, exitStatus, popped, issued>>

InitAuth ==
    /\ config \in {c \in ApiConfigs : ~c.groqApiKey}
    /\ NewService
    /\ input = NoInput
    /\ output = NoOutput

NextAuth ==
    \/ \E body \in AuthBodies, valid \in BOOLEAN, encrypted \in BOOLEAN :
          AuthConnect(body, valid, encrypted)
    \/ \E body \in AuthBodies, valid \in BOOLEAN, encrypted \in BOOLEAN :
          SecureLogin(body, valid, encrypted)
    \/ \E sessionId \in 0..MaxSessions : AuthDisconnect(sessionId)
    \/ \E userId \in {<<"u1">>, <<"user_", "generated">>, <<"u2">>} : AuthStatus(userId)
    \/ \E sessionId \in 0..MaxSessions, hint \in {"", "openai"} : AuthTranslate(sessionId, hint)

SpecAuth == InitAuth /\ [][NextAuth]_vars

\* ---------------------------------------------------------------------------
\* Properties
\* ---------------------------------------------------------------------------
Capacity  == config.stackCapacity
Threshold == config.stackResumeThreshold

\* the step just taken was the timer (or startFetching) calling fetchLatestTransactions
TickOps == {"tick_skip", "tick_fetch"}
PopOps == {"pop", "pop_resumed"}

C3_NextTickFetches ==
    [][ /\ (lastOp' \in PopOps /\ Len(pendingStack') < Threshold) => fetchingEnabled'
        /\ (sincePop # "none" /\ lastOp' \in TickOps) => lastOp' = "tick_fetch" ]_vars

\* C3 (amended): a pop that leaves the length below resumeThreshold leaves
\* the gate open whatever it was before, and the first timer tick after such
\* a pop performs a fetch unless an append of a tick already in flight has
\* closed the gate again in between
C3_ResumeOnPop ==
    [][ /\ (lastOp' \in PopOps /\ Len(pendingStack') < Threshold) => fetchingEnabled'
        /\ (sincePop = "resumed" /\ lastOp' \in TickOps) => lastOp' = "tick_fetch" ]_vars

C3_Witness ==
    /\ lastOp = "pop_resumed"
    /\ Len(pendingStack) < Threshold
    /\ fetchingEnabled
    /\ sincePop = "resumed"

\* C4: every step that takes the gate from SUSPENDED to ENABLED is a pop
C4_OnlyPopResumes ==
    [][ (~fetchingEnabled /\ fetchingEnabled') => lastOp' \in PopOps ]_vars

C4_Witness ==
    /\ lastOp = "pop_resumed"
    /\ fetchingEnabled
    /\ InFlight > 0

\* C5: at most one invocation of fetchLatestTransactions is in flight
C5_SingleTickInFlight == InFlight <= 1

\* C6: a pop of n on a stack of length L returns k = min(n, L) entries (none
\* for a negative n), the last k entries of the stack in reverse order, and
\* leaves the first L - k entries in place
C6_PopLifo ==
    output.op = "pop" =>
        LET L == Len(input.stack)
            n == RequestedCount(input.q, config)
            k == Max(0, Min(n, L))
        IN  /\ Len(output.txs) = k
            /\ Len(output.txs) <= L
            /\ \A i \in 1..k : output.txs[i] = input.stack[L - i + 1]
            /\ output.pendingStack = SubSeq(input.stack, 1, L - k)

C6_Witness ==
    /\ output.op = "pop"
    /\ Len(output.txs) >= 2
    /\ output.txs[1] # output.txs[2]
    /\ Len(output.pendingStack) >= 1

\* C7: a /pending-queue request removes at most maxQueryLimit entries, and a
\* request with n <= 0 returns the empty array and removes nothing
C7_ClampAndNonPositive ==
    output.op = "pop" =>
        /\ Len(output.txs) <= config.maxQueryLimit
        /\ Len(input.stack) - Len(output.pendingStack) <= config.maxQueryLimit
        /\ (~input.q.isNaN /\ input.q.value <= 0) =>
               (output.txs = <<>> /\ output.pendingStack = input.stack)

C9_SuspendedTickNoop ==
    [][ (~fetchingEnabled /\ lastOp' \in TickOps) =>
            /\ lastOp' = "tick_skip"
            /\ UNCHANGED <<pendingStack, fetchingEnabled, currentKeyIndex, store, ticks, userSessions, conn, listening, exitStatus>> ]_vars

C9_Witness ==
    /\ lastOp = "tick_skip"
    /\ ~fetchingEnabled
    /\ Len(pendingStack) < Capacity

\* C10: a step of a tick in which a provider call or the store insert fails
\* leaves the stack and the gate as they were, lets no exception escape, and
\* a failure that ends the tick takes it out of flight, so that the next
\* tick starts a fresh fetch; no step of a tick before its append touches
\* the stack or the gate
C10_ErrorsSkipCycle ==
    [][ /\ lastOp' \in {"tick_fetch", "step", "call_retry", "tick_error", "insert_error"}
            => UNCHANGED <<pendingStack, fetchingEnabled, userSessions, conn, listening, exitStatus>>
        /\ lastOp' \in {"call_retry", "tick_error", "insert_error"} => ~unhandled'
        /\ lastOp' \in {"tick_error", "insert_error"} => InFlight' = InFlight - 1 ]_vars

C10_Witness ==
    /\ lastOp = "insert_error"
    /\ store # {}
    /\ fetchingEnabled
    /\ ~unhandled

\* ---------------------------------------------------------------------------
\* Properties of the credential pool (SpecPool)
\* ---------------------------------------------------------------------------
NumKeys == config.numKeys

\* C11: a call through executeWithRetry makes at most N attempts and at most
\* N - 1 rotations, N the number of credentials, whatever errors the upstream
\* returns: no call in flight is at an attempt beyond the N-th, a retry is
\* pending only before the N-th attempt, and a call that has ended made at
\* most N attempts
C11_BoundedAttempts ==
    /\ \A c \in BagToSet(calls) :
          /\ c.attempt + 1 <= NumKeys
          /\ c.rotations <= NumKeys - 1
          /\ c.pc = "delay" => c.attempt + 1 < NumKeys
    /\ output.op = "call" =>
          /\ output.attempts <= NumKeys
          /\ output.rotations <= NumKeys - 1

C11_Witness ==
    /\ output.op = "call"
    /\ NumKeys = 3
    /\ output.attempts = 3
    /\ output.rotations = 2
    /\ output.status = "error"
    /\ ~output.allRateLimit

\* C12 (as stated): a call entered at index i whose first k attempts fail with
\* rate-limit errors and whose next attempt succeeds returns that success,
\* made with credential (i + k) mod N, and the index ends at (i + k) mod N
C12_SuccessOnRotatedKey ==
    (output.op = "call" /\ output.status = "ok" /\ output.allRateLimit) =>
        LET k == output.attempts - 1
        IN  /\ output.usedKey = (output.first + k) % NumKeys
            /\ output.indexAfter = (output.first + k) % NumKeys

\* C12 (amended): the same, for a call during which no other call rotates
\* the pool
C12_SuccessOnRotatedKeyAlone ==
    (output.op = "call" /\ output.status = "ok" /\ output.allRateLimit /\ output.alone) =>
        LET k == output.attempts - 1
        IN  /\ output.usedKey = (output.first + k) % NumKeys
            /\ output.indexAfter = (output.first + k) % NumKeys
            /\ output.rotations = k

\* 3 credentials, index 0, rate limits on the first two: success on the third
C12_Witness ==
    /\ output.op = "call"
    /\ output.status = "ok"
    /\ output.allRateLimit
    /\ output.alone
    /\ NumKeys = 3
    /\ output.first = 0
    /\ output.attempts = 3
    /\ output.usedKey = 2
    /\ currentKeyIndex = 2

\* C13: an attempt that fails with an error outside the rate-limit class ends
\* the call with that error at once: no retry, no rotation, index and
\* provider unchanged
C13_OtherErrorsPropagate ==
    [][ (lastOp' \in {"call_retry", "call_error"} /\ input'.error \notin RateLimitClass) =>
            /\ lastOp' = "call_error"
            /\ output'.op = "call" => output'.error = input'.error
            /\ UNCHANGED <<currentKeyIndex, provider, userSessions, conn, listening, exitStatus>> ]_vars

\* C14: a call whose N attempts all fail with rate-limit errors fails with the
\* error of the N-th attempt, having rotated after each of the first N - 1
\* failures and not after the last
C14_ExhaustedThrowsLast ==
    [][ (lastOp' = "call_error" /\ output'.op = "call"
            /\ output'.attempts = NumKeys /\ output'.allRateLimit) =>
            /\ output'.status = "error"
            /\ input'.attempt = NumKeys - 1
            /\ output'.error = input'.error
            /\ output'.rotations = NumKeys - 1
            /\ UNCHANGED <<currentKeyIndex, provider, userSessions, conn, listening, exitStatus>> ]_vars

C14_Witness ==
    /\ lastOp = "call_error"
    /\ output.op = "call"
    /\ NumKeys >= 2
    /\ output.attempts = NumKeys
    /\ output.allRateLimit
    /\ output.error = BadResponse429
    /\ output.alone
    /\ currentKeyIndex = (output.first + NumKeys - 1) % NumKeys

\* C15: always 0 <= currentKeyIndex < N and the provider is the one built from
\* apiKeys[currentKeyIndex]; a step that rotates moves the index to
\* (index + 1) mod N and happens only with N > 1; with N = 1 rotateApiKey
\* returns false and changes neither index nor provider
C15_IndexInRange ==
    /\ 0 <= currentKeyIndex
    /\ currentKeyIndex < NumKeys
    /\ provider = currentKeyIndex
    /\ NumKeys = 1 =>
          LET rot == RotateApiKeyCall(currentKeyIndex, provider, NumKeys)
          IN  /\ ~rot.returned
              /\ rot.currentKeyIndex = currentKeyIndex
              /\ rot.provider = provider

C15_RoundRobin ==
    /\ []C15_IndexInRange
    /\ [][ /\ lastOp' = "call_retry" =>
                 (NumKeys > 1 /\ currentKeyIndex' = (currentKeyIndex + 1) % NumKeys)
           /\ currentKeyIndex' # currentKeyIndex => lastOp' = "call_retry" ]_vars

C15_Witness ==
    /\ lastOp = "call_retry"
    /\ NumKeys = 3
    /\ currentKeyIndex = 0
    /\ provider = 0

\* ---------------------------------------------------------------------------
\* Properties of the store and the routes (SpecApi)
\* ---------------------------------------------------------------------------
\* the text of a request body is a text whose trimmed, uppercased form starts
\* with SELECT
IsSelectText(text) == StartsWith(ToUpperCase(Trim(text)), "SELECT")

\* C16: the store holds at most one row per hash; an upsert leaves the new
\* record as the row of its hash, and leaves the row count unchanged when the
\* hash was present (one more when it was not)
C16_OneRowPerHash ==
    /\ \A r1 \in store : \A r2 \in store : r1.hash = r2.hash => r1 = r2
    /\ (lastOp = "insert" /\ output.status = "ok") =>
          /\ input.tx \in store
          /\ output.present => Cardinality(store) = output.countBefore
          /\ ~output.present => Cardinality(store) = output.countBefore + 1

C16_Witness ==
    /\ lastOp = "insert"
    /\ output.status = "ok"
    /\ output.replaced
    /\ Cardinality(store) = 2
    /\ input.tx \in store

\* C17: POST /query answers 400 to every text whose trimmed, uppercased form
\* does not start with SELECT (and to an absent one), and no request other
\* than a text that does start with SELECT reaches database.query or changes
\* the database
C17_NonSelectRejected ==
    [][ (lastOp' = "post_query"
            /\ ~(input'.body.kind = "text" /\ IsSelectText(input'.body.text))) =>
            /\ ~output'.reachedStore
            /\ input'.body.kind # "other" => output'.status = 400
            /\ UNCHANGED <<store, tables>> ]_vars

C17_Witness ==
    /\ lastOp = "post_query"
    /\ input.body.kind = "text"
    /\ input.body.text = <<"DROP", ";", "select">>
    /\ output.status = 400
    /\ ~output.reachedStore
    /\ store # {}

\* C18: database.query refuses a text that does not begin with SELECT before
\* it reaches the engine, with a validation error, and the transactions
\* table is still there afterwards
C18_StoreRefusesNonSelect ==
    (lastOp = "db_query" /\ ~IsSelectText(input.text)) =>
        /\ ~output.reachedEngine
        /\ output.result = "validation_error"
        /\ "transactions" \in tables

\* C20: translate attempts the hinted provider when a hint and a resolvable
\* credential are both supplied, else the server default provider when
\* config.groqApiKey is set, else goes to the rule-based converter without
\* calling any provider
C20_SelectionOrder ==
    (lastOp = "nl_to_sql" /\ input.req.naturalLanguage) =>
        LET hinted == input.req.provider # ""
            cred   == input.req.session = "known" /\ input.req.decryptOk
        IN  /\ (hinted /\ cred) =>
                  (output.branch = "provider" /\ output.attempted = input.req.provider)
            /\ (~(hinted /\ cred) /\ config.groqApiKey) =>
                  (output.branch = "default" /\ output.call = "groq")
            /\ (~(hinted /\ cred) /\ ~config.groqApiKey) =>
                  (output.branch = "rule-based" /\ output.call = "none"
                     /\ output.method = "rule-based")

C20_Witness ==
    /\ lastOp = "nl_to_sql"
    /\ input.req.naturalLanguage
    /\ input.req.provider = "openai"
    /\ input.req.session = "known"
    /\ ~input.req.decryptOk
    /\ config.groqApiKey
    /\ output.branch = "default"
    /\ output.method = "groq"

\* ---------------------------------------------------------------------------
\* Properties of the translation and of the statistics (SpecRoutes)
\* ---------------------------------------------------------------------------
\* the natural-language text of the request
RequestText == input.req.naturalLanguage

\* POST /nl-to-sql has answered a request that carries a text
Translated == output.op = "nl" /\ RequestText # <<>>

\* C21: whenever the provider the handler attempts fails (fetch rejects, a
\* status that is not 2xx, a malformed or empty body, a provider that
\* convertWithProvider does not know), the response is a success with the
\* rule-based converter's SQL for the text and method 'rule-based'; method
\* names a provider only when sqlQuery is what that provider produced
C21_FallbackOnFailure ==
    Translated =>
        /\ (output.branch # "rule-based" /\ ~output.produced.ok) =>
              /\ output.response.status = 200
              /\ output.response.sqlQuery = ConvertNaturalLanguageToSQL(ToLowerCase(RequestText))
              /\ output.response.method = "rule-based"
        /\ output.response.method # "rule-based" =>
              /\ output.response.method = output.attempted
              /\ output.called
              /\ output.produced.ok
              /\ output.response.sqlQuery = output.produced.sqlQuery

C21_Witness ==
    /\ Translated
    /\ RequestText = ExampleSentence
    /\ output.branch = "provider"
    /\ output.attempted = "openai"
    /\ output.reply.kind = "status"
    /\ output.response.status = 200
    /\ output.response.method = "rule-based"
    /\ output.response.sqlQuery = RecentLimit(<<"1", "0">>)

\* C22: every sqlQuery of a response starts with SELECT once trimmed and
\* uppercased, on the hinted, the default and the rule-based path; a provider
\* text that does not is not returned, the rule-based SQL is
C22_AlwaysSelect ==
    Translated =>
        /\ output.response.status = 200
        /\ IsSelectText(output.response.sqlQuery)
        /\ (output.reply.kind = "content" /\ ~IsSelectText(output.reply.content)) =>
              /\ output.response.sqlQuery = ConvertNaturalLanguageToSQL(ToLowerCase(RequestText))
              /\ output.response.method = "rule-based"

C22_Witness ==
    /\ Translated
    /\ output.branch = "default"
    /\ output.reply.kind = "content"
    /\ output.reply.content = <<" ", "DROP", ";">>
    /\ output.response.method = "rule-based"
    /\ IsSelectText(output.response.sqlQuery)

\* C23: when the rule-based converter gets a text with "recent" or "latest"
\* and no keyword of the rule before (large, big, expensive), and the text
\* has a number among its words, the result is the recency query with that
\* number as its LIMIT; the example sentence gives LIMIT 10 with method
\* 'rule-based' when no provider is configured
C23_RecencyLimit ==
    (Translated /\ output.branch = "rule-based") =>
        LET nl == ToLowerCase(RequestText)
            isNumber(i, j) ==
                /\ i <= j
                /\ \A m \in i..j : IsDigit(nl[m])
                /\ (i = 1 \/ nl[i - 1] = " ")
                /\ (j = Len(nl) \/ nl[j + 1] = " ")
            numbers == { SubSeq(nl, i, j) : <<i, j>> \in
                            { p \in (1..Len(nl)) \X (1..Len(nl)) : isNumber(p[1], p[2]) } }
        IN  /\ ((IncludesText(nl, <<"r", "e", "c", "e", "n", "t">>) \/ IncludesText(nl, <<"l", "a",
                "t", "e", "s", "t">>))
                  /\ ~RuleTest(nl, "large") /\ numbers # {}) =>
                  \E n \in numbers : output.response.sqlQuery = RecentLimit(n)
            /\ RequestText = ExampleSentence =>
                  /\ output.response.sqlQuery = RecentLimit(<<"1", "0">>)
                  /\ output.response.method = "rule-based"

\* C24: for every text that contains 0x and 40 hexadecimal digits the
\* rule-based converter returns the query that filters from_address and
\* to_address on that address, as the text spells it
C24_AddressFilter ==
    (Translated /\ output.branch = "rule-based" /\ AddressMatch(RequestText) # <<>>) =>
        output.response.sqlQuery = AddressQuery(AddressMatch(RequestText))

\* C25: the rule-based converter answers every text, with the SQL of the
\* first rule, in the order of the code, whose condition the text meets, and
\* with the default recent-transactions query when it meets none
C25_FirstMatchWins ==
    (Translated /\ output.branch = "rule-based") =>
        LET nl == ToLowerCase(RequestText)
            matching == { i \in 1..Len(RuleNames) : RuleTest(nl, RuleNames[i]) }
            first == CHOOSE i \in matching : \A j \in matching : i <= j
        IN  /\ output.response.status = 200
            /\ output.response.method = "rule-based"
            /\ matching = {} => output.response.sqlQuery = RecentLimit(<<"1", "0">>)
            /\ matching # {} => output.response.sqlQuery = RuleSql(nl, RuleNames[first])

C25_Witness ==
    /\ Translated
    /\ output.branch = "rule-based"
    /\ RequestText = <<"r", "e", "c", "e", "n", "t">> \o <<"l", "a", "r", "g", "e">>
    /\ output.response.sqlQuery = RuleSql(ToLowerCase(RequestText), "large")

\* C28: a request that names a stored session whose credential does not
\* decrypt is answered with an authentication error, not with a translation
\* by another provider or by the rule-based converter
C28_DecryptFailureSurfaced ==
    (Translated /\ input.req.session = "known" /\ ~input.req.decryptOk) =>
        /\ output.response.status \in {401, 403}
        /\ output.branch = "none"

\* C30: GET /transactions/stats answers the aggregates for every table, the
\* rows whose value is no integer of the signed 64-bit range left out of the
\* mean
C30_StatsTolerant ==
    output.op = "stats" =>
        /\ output.status = 200
        /\ output.stats.total_transactions = Cardinality(input.rows)
        /\ output.stats.averaged = Cardinality({ r \in input.rows : CastAsBigInt(r.value) })

\* ---------------------------------------------------------------------------
\* Properties of the life of the process (SpecLife)
\* ---------------------------------------------------------------------------
\* C26: at shutdown the timer is cancelled before the database is closed,
\* the database is closed only when no tick in flight still awaits its
\* inserts, and nothing is written after the close (the close is the last
\* step)
C26_OrderlyShutdown ==
    conn = "closed" =>
        /\ phase # "running"
        /\ \A r \in BagToSet(ticks) : r.pc # "insert"
        /\ lastOp = "shutdown"

\* C27: when database.initialize fails (the database cannot be opened or
\* createTables rejects) the interval is never set, app.listen is never
\* called, and the process has exited with a failure status
C27_InitFailureIsFatal ==
    phase = "failed" =>
        /\ exitStatus = "failure"
        /\ listening = "no"
        /\ ticks = EmptyBag
        /\ store = {}

C27_Witness ==
    /\ phase = "failed"
    /\ conn = "open"
    /\ exitStatus = "failure"
    /\ listening = "no"

\* ---------------------------------------------------------------------------
\* Properties of the sessions (SpecAuth)
\* ---------------------------------------------------------------------------
\* C29: every session of userSessions holds, as its apiKey, a blob of
\* encrypt that decrypts to a credential, marked isEncrypted, and no
\* credential in any other field; and no text of a response of the connect,
\* secure-login, disconnect and status routes contains a credential or a
\* blob of one
C29_CredentialsStayEncrypted ==
    LET secrets == ApiKeys \cup { Encrypt(k) : k \in ApiKeys }
        clean(text) == \A k \in secrets : ~IncludesText(text, k)
    IN  /\ \A i \in DOMAIN userSessions :
              LET session == userSessions[i]
              IN  /\ session.isEncrypted
                  /\ session.apiKey \notin ApiKeys
                  /\ Decrypt(session.apiKey).ok
                  /\ Decrypt(session.apiKey).text \in ApiKeys
                  /\ clean(session.userId)
                  /\ clean(<<session.provider>>)
        /\ output.op \in {"connect", "disconnect", "status"} =>
              LET r == output.response
              IN  /\ clean(r.error) /\ clean(r.details) /\ clean(r.userId)
                  /\ clean(r.message) /\ clean(<<r.provider>>)
                  /\ \A p \in r.providers : clean(<<p.provider>>)

C29_Witness ==
    /\ lastOp = "auth_status"
    /\ output.response.providers # {}
    /\ \E i \in DOMAIN userSessions :
          /\ userSessions[i].apiKey = Encrypt(<<"sk-", "secret-1">>)
          /\ userSessions[i].userId = <<"u1">>
          /\ [sessionId |-> i, provider |-> "claude"] \in output.response.providers

\* ---------------------------------------------------------------------------
\* Properties of close (SpecStore)
\* ---------------------------------------------------------------------------
\* C31: close() never raises; it releases a handle only if that handle is
\* held, so no handle is released twice; and once the connection and the
\* database are both released, a further close() releases nothing and leaves
\* the handles and the rows as they are
C31_CloseIdempotent ==
    [][ lastOp' = "close" =>
          /\ ~output'.raised
          /\ \A h \in output'.released : input'[h] = "open"
          /\ (conn = "closed" /\ db = "closed") =>
                /\ output'.released = {}
                /\ conn' = conn /\ db' = db /\ store' = store /\ tables' = tables ]_vars

C31_Witness ==
    /\ lastOp = "close"
    /\ input.conn = "closed" /\ input.db = "closed"
    /\ conn = "closed" /\ db = "closed"
    /\ store # {}

\* ---------------------------------------------------------------------------
\* Properties of the running service, continued (Spec)
\* ---------------------------------------------------------------------------
\* C32: every hash in the PendingStack has a row in the store, and a step
\* in which the insert of a batch fails leaves the stack as it was
C32_StackEntriesStored ==
    /\ [](\A i \in 1..Len(pendingStack) : \E row \in store : row.hash = pendingStack[i])
    /\ [][lastOp' = "insert_error" => pendingStack' = pendingStack]_vars

C32_Witness ==
    /\ lastOp = "insert_error"
    /\ pendingStack = <<>>
    /\ \E row \in store : row.hash = 11

\* C33: from a SUSPENDED state, a step leaves the state ENABLED only if it
\* is a pop that leaves the length strictly below resumeThreshold; a pop
\* that leaves the length at or above resumeThreshold keeps it SUSPENDED
C33_SuspendedUntilBelowThreshold ==
    [][ ~fetchingEnabled =>
          /\ fetchingEnabled' => (lastOp' \in PopOps /\ Len(pendingStack') < Threshold)
          /\ (lastOp' \in PopOps /\ Len(pendingStack') >= Threshold) => ~fetchingEnabled' ]_vars

C33_Witness ==
    /\ lastOp = "pop"
    /\ ~fetchingEnabled
    /\ popped >= 1
    /\ Len(pendingStack) = Threshold
    /\ Threshold < Capacity - 1

\* C34: at a step from SUSPENDED to ENABLED, the pops made since the state
\* became SUSPENDED have removed at least capacity - resumeThreshold + 1
\* entries
C34_NoOscillation ==
    [][ (~fetchingEnabled /\ fetchingEnabled') =>
           popped + (Len(pendingStack) - Len(pendingStack')) >= Capacity - Threshold + 1 ]_vars

\* all but one of the entries of the band are removed, by pops that left
\* the state SUSPENDED; the pop that removes one more resumes
C34_Witness ==
    /\ lastOp = "pop"
    /\ ~fetchingEnabled
    /\ popped = Capacity - Threshold
    /\ Len(pendingStack) = Threshold
    /\ Capacity - Threshold >= 2

\* C36: every step that appends a batch to the PendingStack starts in a
\* state where ingestion is ENABLED
C36_AppendOnlyWhenEnabled ==
    [][ (lastOp' \in {"append", "append_truncated"} /\ ticks' # ticks) => fetchingEnabled ]_vars

\* C38: no hash is in the PendingStack twice
C38_AppendedOncePerBlock ==
    \A i \in 1..Len(pendingStack) : \A j \in 1..Len(pendingStack) :
        pendingStack[i] = pendingStack[j] => i = j

\* ---------------------------------------------------------------------------
\* Properties of the credential pool, continued (SpecPool)
\* ---------------------------------------------------------------------------
\* C37: an attempt of a call is never issued with a credential on which an
\* earlier attempt of the same call has failed
C37_RetryOnFreshCredential ==
    \A c \in BagToSet(calls) :
        (c.observed /\ c.pc = "call") => c.usedKey \notin c.failedKeys

\* ---------------------------------------------------------------------------
\* Properties of the sessions, continued (SpecAuth)
\* ---------------------------------------------------------------------------
\* C39: a session is in the map from the successful connect that made its id
\* to the first disconnect of that id.  A connect that is refused stores
\* nothing; a successful one stores one session under an id never made
\* before; only the disconnect of an id takes its session away, and a
\* disconnect of an id without a session answers 404.  The status of a user
\* lists the sessions of the map and no other, and a translate request gets
\* a credential only from a session of the map
C39_SessionLifecycle ==
    /\ [](/\ DOMAIN userSessions \subseteq 1..issued
          /\ lastOp = "auth_status" =>
                { p.sessionId : p \in output.response.providers } =
                    { i \in DOMAIN userSessions : userSessions[i].userId = input.userId }
          /\ lastOp = "auth_translate" =>
                IF input.sessionId \in DOMAIN userSessions
                THEN output.apiKey = Decrypt(userSessions[input.sessionId].apiKey).text
                ELSE output.apiKey = <<>> /\ output.sent = <<>>)
    /\ [][ /\ \A i \in DOMAIN userSessions :
                IF lastOp' = "auth_disconnect" /\ input'.sessionId = i
                THEN i \notin DOMAIN userSessions' /\ output'.response.status = 200
                ELSE i \in DOMAIN userSessions' /\ userSessions'[i] = userSessions[i]
           /\ \A i \in DOMAIN userSessions' \ DOMAIN userSessions :
                /\ lastOp' \in {"auth_connect", "auth_secure_login"}
                /\ output'.response.status = 200
                /\ output'.response.sessionId = i
                /\ i = issued + 1
           /\ (lastOp' \in {"auth_connect", "auth_secure_login"} /\ output'.response.status # 200)
                => userSessions' = userSessions
           /\ (lastOp' = "auth_disconnect" /\ input'.sessionId \notin DOMAIN userSessions)
                => output'.response.status = 404 ]_vars

\* the second disconnect of an id, and a translate request with an id whose
\* session is gone
C39_Witness ==
    /\ issued = 2
    /\ DOMAIN userSessions = {2}
    /\ \/ /\ lastOp = "auth_disconnect"
          /\ input.sessionId = 1
          /\ output.response.status = 404
       \/ /\ lastOp = "auth_translate"
          /\ input.sessionId = 1
          /\ output.apiKey = <<>>

\* ---------------------------------------------------------------------------
\* Properties of the configuration (SpecConfig)
\* ---------------------------------------------------------------------------
\* C40: unless the environment gives at least one credential (a text that
\* is not empty) and the capacity of the config is greater than its resume
\* threshold, the process has exited with a failure once validateConfig has
\* run, with no tick started and listen never called; and a capacity or a
\* threshold that is not set or has no leading digits is the default, the
\* two defaults being integers with capacity above threshold
C40_InvalidConfigIsFatal ==
    LET credential == \E i \in 1..Len(config.infuraApiKeys) :
                         config.infuraApiKeys[i] \notin {<<"undefined">>, <<>>}
    IN  /\ (phase # "loading" /\ ~(credential /\ config.stackCapacity > config.stackResumeThreshold))
              => /\ exitStatus = "failure"
                 /\ phase = "failed"
                 /\ ticks = EmptyBag
                 /\ listening = "no"
        /\ ParseInt(input.STACK_CAPACITY).isNaN => config.stackCapacity = DefaultStackCapacity
        /\ ParseInt(input.STACK_RESUME_THRESHOLD).isNaN
              => config.stackResumeThreshold = DefaultStackResumeThreshold
        /\ DefaultStackCapacity \in Nat /\ DefaultStackResumeThreshold \in Nat
        /\ DefaultStackCapacity > DefaultStackResumeThreshold

\* ---------------------------------------------------------------------------
\* Properties of the gate under requests that keep arriving (SpecGate)
\* ---------------------------------------------------------------------------
\* C35: every SUSPENDED state is followed by an ENABLED state
C35_EventuallyResumes == (~fetchingEnabled) ~> fetchingEnabled
====
